---- MODULE Spec2Model ----
(***************************************************************************)
(* A model of skylos-rs, the dead-code analyzer: the per-file visitors     *)
(* (SkylosVisitor, FrameworkAwareVisitor, TestAwareVisitor), the entry     *)
(* point extractor, the penalty cascade and Skylos::analyze, the parallel  *)
(* per-file map followed by the single-threaded aggregation.               *)
(*                                                                         *)
(* Strings are sequences of one-character strings, so that starts_with,    *)
(* ends_with, contains, split and join are computed as the code computes   *)
(* them.  A Python file is its path, its text (lines with their lengths    *)
(* and their comments) and the syntax tree rustpython_parser yields for    *)
(* it; a tree node is a record with a "kind" field naming the variant of   *)
(* rustpython_ast::Stmt / Expr, the variant's fields under their own       *)
(* names, and "start" for range.start().  An Option is a sequence of       *)
(* length 0 (None) or 1 (Some).                                            *)
(***************************************************************************)
EXTENDS Integers, Sequences, FiniteSets, TLC

(***************************************************************************)
(* String primitives (std::str).                                           *)
(***************************************************************************)
StartsWith(s, p) == Len(s) >= Len(p) /\ SubSeq(s, 1, Len(p)) = p

EndsWith(s, p) == Len(s) >= Len(p) /\ SubSeq(s, Len(s) - Len(p) + 1, Len(s)) = p

Contains(s, p) == \E i \in 0..(Len(s) - Len(p)) : SubSeq(s, i + 1, i + Len(p)) = p

MaxOf(S) == CHOOSE x \in S : \A y \in S : y <= x

\* s.split(c).last(): the text after the last c, the whole of s without one
SplitLast(s, c) ==
    LET at == {i \in 1..Len(s) : s[i] = c}
    IN  IF at = {} THEN s ELSE SubSeq(s, MaxOf(at) + 1, Len(s))

\* s.split(c).next(): the text before the first c
SplitFirst(s, c) ==
    LET at == {i \in 1..Len(s) : s[i] = c}
    IN  IF at = {} THEN s ELSE SubSeq(s, 1, (CHOOSE i \in at : \A j \in at : i <= j) - 1)

RECURSIVE Join(_, _)
Join(parts, sep) ==
    IF Len(parts) = 0 THEN <<>>
    ELSE IF Len(parts) = 1 THEN parts[1]
    ELSE parts[1] \o sep \o Join(Tail(parts), sep)

UpperChars == <<"A","B","C","D","E","F","G","H","I","J","K","L","M",
                "N","O","P","Q","R","S","T","U","V","W","X","Y","Z">>
LowerChars == <<"a","b","c","d","e","f","g","h","i","j","k","l","m",
                "n","o","p","q","r","s","t","u","v","w","x","y","z">>

to_lowercase(s) ==
    [i \in 1..Len(s) |->
        IF \E k \in 1..Len(UpperChars) : UpperChars[k] = s[i]
        THEN LowerChars[CHOOSE k \in 1..Len(UpperChars) : UpperChars[k] = s[i]]
        ELSE s[i]]

RECURSIVE Flatten(_)
Flatten(ss) == IF Len(ss) = 0 THEN <<>> ELSE Head(ss) \o Flatten(Tail(ss))

\* the elements of a set in some order (a HashSet's iteration order)
RECURSIVE SetToSeq(_)
SetToSeq(S) ==
    IF S = {} THEN <<>>
    ELSE LET x == CHOOSE y \in S : TRUE IN <<x>> \o SetToSeq(S \ {x})

(***************************************************************************)
(* The string literals of the source.                                      *)
(***************************************************************************)
DOT == <<".">>
UNDERSCORE == <<"_">>
DUNDER == <<"_","_">>
STR_test_ == <<"t","e","s","t","_">>
STR_visit_ == <<"v","i","s","i","t","_">>
STR_leave_ == <<"l","e","a","v","e","_">>
STR_on_ == <<"o","n","_">>
STR_main == <<"m","a","i","n">>
STR_run == <<"r","u","n">>
STR_execute == <<"e","x","e","c","u","t","e">>
STR_self == <<"s","e","l","f">>
STR_cls == <<"c","l","s">>
STR_all == <<"_","_","a","l","l","_","_">>
STR_future == <<"_","_","f","u","t","u","r","e","_","_">>
STR_name_dunder == <<"_","_","n","a","m","e","_","_">>
STR_main_dunder == <<"_","_","m","a","i","n","_","_">>
STR_init_py == <<"_","_","i","n","i","t","_","_",".","p","y">>
STR_py == <<"p","y">>
STR_pragma == <<"p","r","a","g","m","a",":"," ","n","o"," ","s","k","y","l","o","s">>

(***************************************************************************)
(* utils.rs: LineIndex and get_ignored_lines.  A source text is a sequence *)
(* of lines, [len |-> characters before the newline, comment |-> the       *)
(* line's comment text]; every line ends with a newline.                   *)
(***************************************************************************)
RECURSIVE LineStartsFrom(_, _)
LineStartsFrom(lines, at) ==
    IF Len(lines) = 0 THEN <<>>
    ELSE <<at + Head(lines).len + 1>> \o LineStartsFrom(Tail(lines), at + Head(lines).len + 1)

LineIndex_new(source) == [line_starts |-> <<0>> \o LineStartsFrom(source, 0)]

\* line_index with both arms of the match returning the insertion point
line_index_unshifted(li, offset) ==
    Cardinality({i \in 1..Len(li.line_starts) : li.line_starts[i] < offset})

\* binary_search: Ok(i) when line_starts[i] = offset, else Err(insertion point)
line_index(li, offset) ==
    LET ls == li.line_starts
        hit == {i \in 1..Len(ls) : ls[i] = offset}
    IN  IF hit # {}
        THEN ((CHOOSE i \in hit : TRUE) - 1) + 1
        ELSE Cardinality({i \in 1..Len(ls) : ls[i] < offset})

get_ignored_lines(source) ==
    {i \in 1..Len(source) : Contains(source[i].comment, STR_pragma)}

(***************************************************************************)
(* visitor.rs: SkylosVisitor.                                              *)
(***************************************************************************)
SkylosVisitor_new(file_path, module_name, li) ==
    [definitions |-> <<>>, references |-> <<>>, exports |-> <<>>,
     dynamic_imports |-> <<>>, file_path |-> file_path,
     module_name |-> module_name, current_scope |-> <<>>,
     class_stack |-> <<>>, line_index |-> li]

\* Path::ends_with("__init__.py"): the last path component is __init__.py
PathEndsWithInit(file_path) == SplitLast(file_path, "/") = STR_init_py

is_dunder_name(simple_name) ==
    StartsWith(simple_name, DUNDER) /\ EndsWith(simple_name, DUNDER)

is_implicitly_used_without_dunder(simple_name) ==
    \/ StartsWith(simple_name, STR_test_)
    \/ StartsWith(simple_name, STR_visit_)
    \/ StartsWith(simple_name, STR_leave_)
    \/ StartsWith(simple_name, STR_on_)
    \/ simple_name \in {STR_main, STR_run, STR_execute}

is_implicitly_used(simple_name) ==
    LET is_test == StartsWith(simple_name, STR_test_)
        is_dynamic_pattern ==
            \/ StartsWith(simple_name, STR_visit_)
            \/ StartsWith(simple_name, STR_leave_)
            \/ StartsWith(simple_name, STR_on_)
        is_standard_entry == simple_name \in {STR_main, STR_run, STR_execute}
    IN  is_test \/ is_dynamic_pattern \/ is_standard_entry \/ is_dunder_name(simple_name)

\* add_def_with_bases that creates every definition with references = 0
add_def_with_bases_unreferenced(v, name, def_type, line, base_classes) ==
    LET simple_name == SplitLast(name, ".")
        used == is_implicitly_used(simple_name)
        definition ==
            [name |-> name, full_name |-> name, simple_name |-> simple_name,
             def_type |-> def_type, file |-> v.file_path, line |-> line,
             confidence |-> 100, references |-> 0,
             is_exported |-> used, in_init |-> PathEndsWithInit(v.file_path),
             base_classes |-> base_classes]
    IN  [v EXCEPT !.definitions = Append(@, definition)]

add_def_with_bases(v, name, def_type, line, base_classes) ==
    LET simple_name == SplitLast(name, ".")
        used == is_implicitly_used(simple_name)
        definition ==
            [name |-> name, full_name |-> name, simple_name |-> simple_name,
             def_type |-> def_type, file |-> v.file_path, line |-> line,
             confidence |-> 100, references |-> IF used THEN 1 ELSE 0,
             is_exported |-> used, in_init |-> PathEndsWithInit(v.file_path),
             base_classes |-> base_classes]
    IN  [v EXCEPT !.definitions = Append(@, definition)]

add_def(v, name, def_type, line) == add_def_with_bases(v, name, def_type, line, <<>>)

add_ref(v, name) == [v EXCEPT !.references = Append(@, <<name, v.file_path>>)]

\* get_qualified_name without the class stack: the module and the name alone
get_qualified_name_unscoped(v, name) ==
    Join((IF Len(v.module_name) # 0 THEN <<v.module_name>> ELSE <<>>) \o <<name>>, DOT)

get_qualified_name(v, name) ==
    Join((IF Len(v.module_name) # 0 THEN <<v.module_name>> ELSE <<>>)
         \o v.class_stack \o <<name>>, DOT)

\* the sub-expressions a comprehension's generators contribute, in visit order
GeneratorExprs(generators) ==
    Flatten([i \in 1..Len(generators) |-> <<generators[i].iter>> \o generators[i].ifs])

\* node.keys.iter().zip(&node.values): the key when there is one, then the value
DictExprs(keys, values) ==
    LET n == IF Len(keys) < Len(values) THEN Len(keys) ELSE Len(values)
    IN  Flatten([i \in 1..n |-> keys[i] \o <<values[i]>>])

KeywordValues(keywords) == [i \in 1..Len(keywords) |-> keywords[i].value]

RECURSIVE visit_expr(_, _), visit_exprs(_, _)
visit_exprs(v, exprs) ==
    IF Len(exprs) = 0 THEN v ELSE visit_exprs(visit_expr(v, Head(exprs)), Tail(exprs))

visit_expr(v, expr) ==
    CASE expr.kind = "Name" ->
            IF expr.ctx = "Load" THEN add_ref(v, expr.id) ELSE v
      [] expr.kind = "Call" ->
            visit_exprs(visit_exprs(visit_expr(v, expr.func), expr.args),
                        KeywordValues(expr.keywords))
      [] expr.kind = "Attribute" ->
            LET v1 ==
                IF expr.value.kind = "Name"
                THEN LET base_id == expr.value.id
                     IN  IF base_id \in {STR_self, STR_cls} /\ Len(v.class_stack) # 0
                         THEN add_ref(v,
                                Join((IF Len(v.module_name) # 0
                                      THEN <<v.module_name>> ELSE <<>>)
                                     \o v.class_stack \o <<expr.attr>>, DOT))
                         ELSE add_ref(add_ref(add_ref(v, base_id),
                                              base_id \o DOT \o expr.attr),
                                      expr.attr)
                ELSE v
            IN  visit_expr(v1, expr.value)
      [] expr.kind = "Constant" ->
            IF expr.value.type = "Str"
               /\ ~Contains(expr.value.s, <<" ">>)
               /\ ~Contains(expr.value.s, DOT)
               /\ Len(expr.value.s) # 0
            THEN add_ref(v, expr.value.s)
            ELSE v
      [] expr.kind = "BoolOp" -> visit_exprs(v, expr.values)
      [] expr.kind = "BinOp" -> visit_expr(visit_expr(v, expr.left), expr.right)
      [] expr.kind = "UnaryOp" -> visit_expr(v, expr.operand)
      [] expr.kind = "Lambda" -> visit_expr(v, expr.body)
      [] expr.kind = "IfExp" ->
            visit_expr(visit_expr(visit_expr(v, expr.test), expr.body), expr.orelse)
      [] expr.kind = "Dict" -> visit_exprs(v, DictExprs(expr.keys, expr.values))
      [] expr.kind = "Set" -> visit_exprs(v, expr.elts)
      [] expr.kind \in {"ListComp", "SetComp", "GeneratorExp"} ->
            visit_exprs(visit_expr(v, expr.elt), GeneratorExprs(expr.generators))
      [] expr.kind = "DictComp" ->
            visit_exprs(visit_expr(visit_expr(v, expr.key), expr.value),
                        GeneratorExprs(expr.generators))
      [] expr.kind = "Await" -> visit_expr(v, expr.value)
      [] expr.kind = "Yield" -> visit_exprs(v, expr.value)
      [] expr.kind = "YieldFrom" -> visit_expr(v, expr.value)
      [] expr.kind = "Compare" ->
            visit_exprs(visit_expr(v, expr.left), expr.comparators)
      [] expr.kind = "Subscript" -> visit_expr(visit_expr(v, expr.value), expr.slice)
      [] expr.kind = "FormattedValue" -> visit_expr(v, expr.value)
      [] expr.kind = "JoinedStr" -> visit_exprs(v, expr.values)
      [] expr.kind = "List" -> visit_exprs(v, expr.elts)
      [] expr.kind = "Tuple" -> visit_exprs(v, expr.elts)
      [] expr.kind = "Slice" -> visit_exprs(v, expr.lower \o expr.upper \o expr.step)
      [] OTHER -> v

\* the names a class's bases contribute to base_classes
base_class_names(bases) ==
    Flatten([i \in 1..Len(bases) |->
        CASE bases[i].kind = "Name" -> <<bases[i].id>>
          [] bases[i].kind = "Attribute" -> <<bases[i].attr>>
          [] OTHER -> <<>>])

RECURSIVE visit_bases_unqualified(_, _)
visit_bases_unqualified(v, bases) ==
    IF Len(bases) = 0 THEN v
    ELSE visit_bases_unqualified(visit_expr(v, Head(bases)), Tail(bases))

\* for base in &node.bases: visit it, then the module-qualified reference
RECURSIVE visit_bases(_, _)
visit_bases(v, bases) ==
    IF Len(bases) = 0 THEN v
    ELSE LET base == Head(bases)
             v1 == visit_expr(v, base)
             v2 == IF base.kind = "Name" /\ Len(v.module_name) # 0
                   THEN add_ref(v1, v.module_name \o DOT \o base.id)
                   ELSE v1
         IN  visit_bases(v2, Tail(bases))

\* for alias in names: add_def(asname or name, "import", line)
RECURSIVE visit_aliases(_, _, _)
visit_aliases(v, names, line) ==
    IF Len(names) = 0 THEN v
    ELSE LET alias == Head(names)
             asname == IF Len(alias.asname) # 0 THEN alias.asname[1] ELSE alias.name
         IN  visit_aliases(add_def(v, asname, "import", line), Tail(names), line)

\* the strings of an __all__ = [...] list literal
all_exports(node) ==
    IF /\ Len(node.targets) # 0
       /\ node.targets[1].kind = "Name"
       /\ node.targets[1].id = STR_all
       /\ node.value.kind = "List"
    THEN Flatten([i \in 1..Len(node.value.elts) |->
            IF node.value.elts[i].kind = "Constant"
               /\ node.value.elts[i].value.type = "Str"
            THEN <<node.value.elts[i].value.s>> ELSE <<>>])
    ELSE <<>>

WithItemExprs(items) == [i \in 1..Len(items) |-> items[i].context_expr]

RECURSIVE visit_stmt(_, _), visit_stmts(_, _), visit_handlers(_, _)
visit_stmts(v, stmts) ==
    IF Len(stmts) = 0 THEN v ELSE visit_stmts(visit_stmt(v, Head(stmts)), Tail(stmts))

visit_handlers(v, handlers) ==
    IF Len(handlers) = 0 THEN v
    ELSE visit_handlers(
            visit_stmts(visit_exprs(v, Head(handlers).type_), Head(handlers).body),
            Tail(handlers))

visit_function_def(v, name, body, range_start) ==
    LET qualified_name == get_qualified_name(v, name)
        line == line_index(v.line_index, range_start)
        def_type == IF Len(v.class_stack) # 0 THEN "method" ELSE "function"
    IN  visit_stmts(add_def(v, qualified_name, def_type, line), body)

visit_stmt(v, stmt) ==
    CASE stmt.kind \in {"FunctionDef", "AsyncFunctionDef"} ->
            visit_function_def(v, stmt.name, stmt.body, stmt.start)
      [] stmt.kind = "ClassDef" ->
            LET qualified_name == get_qualified_name(v, stmt.name)
                line == line_index(v.line_index, stmt.start)
                v1 == add_def_with_bases(v, qualified_name, "class", line,
                                         base_class_names(stmt.bases))
                v2 == visit_bases(v1, stmt.bases)
                v3 == [v2 EXCEPT !.class_stack = Append(@, stmt.name)]
                v4 == visit_stmts(v3, stmt.body)
            IN  [v4 EXCEPT !.class_stack = SubSeq(@, 1, Len(@) - 1)]
      [] stmt.kind = "Import" ->
            visit_aliases(v, stmt.names, line_index(v.line_index, stmt.start))
      [] stmt.kind = "ImportFrom" ->
            IF Len(stmt.module) # 0 /\ stmt.module[1] = STR_future
            THEN v
            ELSE visit_aliases(v, stmt.names, line_index(v.line_index, stmt.start))
      [] stmt.kind = "Assign" ->
            visit_expr([v EXCEPT !.exports = @ \o all_exports(stmt)], stmt.value)
      [] stmt.kind = "Expr" -> visit_expr(v, stmt.value)
      [] stmt.kind \in {"If", "While"} ->
            visit_stmts(visit_stmts(visit_expr(v, stmt.test), stmt.body), stmt.orelse)
      [] stmt.kind \in {"For", "AsyncFor"} ->
            visit_stmts(visit_stmts(visit_expr(v, stmt.iter), stmt.body), stmt.orelse)
      [] stmt.kind \in {"With", "AsyncWith"} ->
            visit_stmts(visit_exprs(v, WithItemExprs(stmt.items)), stmt.body)
      [] stmt.kind \in {"Try", "TryStar"} ->
            visit_stmts(
                visit_stmts(visit_handlers(visit_stmts(v, stmt.body), stmt.handlers),
                            stmt.orelse),
                stmt.finalbody)
      [] stmt.kind = "Return" -> visit_exprs(v, stmt.value)
      [] OTHER -> v

(***************************************************************************)
(* entry_point.rs: the calls made under  if __name__ == "__main__":        *)
(***************************************************************************)
is_name_dunder(expr) == expr.kind = "Name" /\ expr.id = STR_name_dunder

is_main_string(expr) ==
    expr.kind = "Constant" /\ expr.value.type = "Str" /\ expr.value.s = STR_main_dunder

is_main_guard(stmt) ==
    /\ stmt.kind = "If"
    /\ stmt.test.kind = "Compare"
    /\ Len(stmt.test.ops) = 1
    /\ Len(stmt.test.comparators) = 1
    /\ \/ is_name_dunder(stmt.test.left) /\ is_main_string(stmt.test.comparators[1])
       \/ is_name_dunder(stmt.test.comparators[1]) /\ is_main_string(stmt.test.left)

get_call_name(expr) ==
    CASE expr.kind = "Name" -> <<expr.id>>
      [] expr.kind = "Attribute" -> <<expr.attr>>
      [] OTHER -> <<>>

RECURSIVE collect_calls_from_expr(_, _), collect_calls_from_exprs(_, _)
collect_calls_from_exprs(exprs, calls) ==
    IF Len(exprs) = 0 THEN calls
    ELSE collect_calls_from_exprs(Tail(exprs), collect_calls_from_expr(Head(exprs), calls))

collect_calls_from_expr(expr, calls) ==
    CASE expr.kind = "Call" ->
            LET name == get_call_name(expr.func)
            IN  collect_calls_from_exprs(expr.args,
                    IF Len(name) # 0 THEN calls \cup {name[1]} ELSE calls)
      [] expr.kind = "Attribute" -> collect_calls_from_expr(expr.value, calls)
      [] expr.kind = "BinOp" ->
            collect_calls_from_expr(expr.right, collect_calls_from_expr(expr.left, calls))
      [] OTHER -> calls

RECURSIVE collect_function_calls(_, _), collect_function_calls_all(_, _)
collect_function_calls_all(stmts, calls) ==
    IF Len(stmts) = 0 THEN calls
    ELSE collect_function_calls_all(Tail(stmts), collect_function_calls(Head(stmts), calls))

collect_function_calls(stmt, calls) ==
    CASE stmt.kind \in {"Expr", "Assign"} -> collect_calls_from_expr(stmt.value, calls)
      [] stmt.kind = "If" ->
            collect_function_calls_all(stmt.orelse,
                collect_function_calls_all(stmt.body, calls))
      [] stmt.kind = "For" ->
            collect_function_calls_all(stmt.body, collect_calls_from_expr(stmt.iter, calls))
      [] stmt.kind = "While" -> collect_function_calls_all(stmt.body, calls)
      [] OTHER -> calls

RECURSIVE detect_entry_point_calls_from(_, _)
detect_entry_point_calls_from(stmts, calls) ==
    IF Len(stmts) = 0 THEN calls
    ELSE detect_entry_point_calls_from(Tail(stmts),
            IF is_main_guard(Head(stmts))
            THEN collect_function_calls_all(Head(stmts).body, calls)
            ELSE calls)

detect_entry_point_calls(stmts) == detect_entry_point_calls_from(stmts, {})

(***************************************************************************)
(* framework.rs: FrameworkAwareVisitor.                                    *)
(***************************************************************************)
FRAMEWORK_IMPORTS ==
    { <<"f","l","a","s","k">>, <<"f","a","s","t","a","p","i">>,
      <<"d","j","a","n","g","o">>,
      <<"r","e","s","t","_","f","r","a","m","e","w","o","r","k">>,
      <<"p","y","d","a","n","t","i","c">>, <<"c","e","l","e","r","y">>,
      <<"s","t","a","r","l","e","t","t","e">>, <<"u","v","i","c","o","r","n">> }

FRAMEWORK_DECORATOR_MARKERS ==
    { <<"r","o","u","t","e">>, <<"g","e","t">>, <<"p","o","s","t">>, <<"p","u","t">>,
      <<"d","e","l","e","t","e">>, <<"v","a","l","i","d","a","t","o","r">>,
      <<"t","a","s","k">> }

FRAMEWORK_BASE_MARKERS ==
    { <<"v","i","e","w">>, <<"m","o","d","e","l">>, <<"s","c","h","e","m","a">> }

FrameworkAwareVisitor_new(li) ==
    [is_framework_file |-> FALSE, detected_frameworks |-> {},
     framework_decorated_lines |-> {}, line_index |-> li]

RECURSIVE get_decorator_name(_)
get_decorator_name(decorator) ==
    CASE decorator.kind = "Name" -> decorator.id
      [] decorator.kind = "Attribute" -> decorator.attr
      [] decorator.kind = "Call" -> get_decorator_name(decorator.func)
      [] OTHER -> <<>>

is_framework_decorator(name) ==
    \E m \in FRAMEWORK_DECORATOR_MARKERS : Contains(to_lowercase(name), m)

check_decorators(fv, decorators, line) ==
    IF \E i \in 1..Len(decorators) :
            is_framework_decorator(get_decorator_name(decorators[i]))
    THEN [fv EXCEPT !.framework_decorated_lines = @ \cup {line},
                    !.is_framework_file = TRUE]
    ELSE fv

RECURSIVE framework_visit_stmt(_, _), framework_visit_stmts(_, _)
framework_visit_stmts(fv, stmts) ==
    IF Len(stmts) = 0 THEN fv
    ELSE framework_visit_stmts(framework_visit_stmt(fv, Head(stmts)), Tail(stmts))

framework_visit_stmt(fv, stmt) ==
    CASE stmt.kind = "Import" ->
            LET found == {fw \in FRAMEWORK_IMPORTS :
                            \E i \in 1..Len(stmt.names) : Contains(stmt.names[i].name, fw)}
            IN  IF found # {}
                THEN [fv EXCEPT !.is_framework_file = TRUE,
                                !.detected_frameworks = @ \cup found]
                ELSE fv
      [] stmt.kind = "ImportFrom" ->
            IF Len(stmt.module) # 0 /\ SplitFirst(stmt.module[1], ".") \in FRAMEWORK_IMPORTS
            THEN [fv EXCEPT !.is_framework_file = TRUE,
                            !.detected_frameworks =
                                @ \cup {SplitFirst(stmt.module[1], ".")}]
            ELSE fv
      [] stmt.kind = "FunctionDef" ->
            framework_visit_stmts(
                check_decorators(fv, stmt.decorator_list,
                                 line_index(fv.line_index, stmt.start)),
                stmt.body)
      [] stmt.kind = "ClassDef" ->
            framework_visit_stmts(
                IF \E i \in 1..Len(stmt.bases) :
                      /\ stmt.bases[i].kind = "Name"
                      /\ \E m \in FRAMEWORK_BASE_MARKERS :
                            Contains(to_lowercase(stmt.bases[i].id), m)
                THEN [fv EXCEPT !.is_framework_file = TRUE,
                                !.framework_decorated_lines =
                                    @ \cup {line_index(fv.line_index, stmt.start)}]
                ELSE fv,
                stmt.body)
      [] OTHER -> fv

(***************************************************************************)
(* test_utils.rs: TestAwareVisitor.                                        *)
(***************************************************************************)
STR_test_suffix == <<"_","t","e","s","t">>
STR_test_py == <<"_","t","e","s","t",".","p","y">>
STR_Test == <<"T","e","s","t">>
STR_pytest == <<"p","y","t","e","s","t">>
STR_fixture == <<"f","i","x","t","u","r","e">>
STR_test == <<"t","e","s","t">>
STR_tests == <<"t","e","s","t","s">>
PathSeparators == {"/", "\\"}

\* TEST_FILE_RE: (?:^|[/\\])tests?[/\\]|_test\.py$
TEST_FILE_RE_is_match(path_str) ==
    \/ \E i \in 1..Len(path_str) :
          /\ i = 1 \/ path_str[i - 1] \in PathSeparators
          /\ \E w \in {STR_test, STR_tests} :
                /\ i + Len(w) <= Len(path_str)
                /\ SubSeq(path_str, i, i + Len(w) - 1) = w
                /\ path_str[i + Len(w)] \in PathSeparators
    \/ EndsWith(path_str, STR_test_py)

TestAwareVisitor_new(path, li) ==
    [is_test_file |-> TEST_FILE_RE_is_match(path), test_decorated_lines |-> <<>>,
     line_index |-> li]

\* the lines the decorators of a function push: one per pytest/fixture decorator
test_decorator_lines(decorator_list, line) ==
    Flatten([i \in 1..Len(decorator_list) |->
        LET d == decorator_list[i]
            name == CASE d.kind = "Name" -> <<d.id>>
                      [] d.kind = "Attribute" -> <<d.attr>>
                      [] OTHER -> <<>>
        IN  IF Len(name) # 0
               /\ (Contains(name[1], STR_pytest) \/ Contains(name[1], STR_fixture))
            THEN <<line>> ELSE <<>>])

RECURSIVE test_visit_stmt(_, _), test_visit_stmts(_, _)
test_visit_stmts(tv, stmts) ==
    IF Len(stmts) = 0 THEN tv
    ELSE test_visit_stmts(test_visit_stmt(tv, Head(stmts)), Tail(stmts))

test_visit_stmt(tv, stmt) ==
    CASE stmt.kind = "FunctionDef" ->
            LET line == line_index(tv.line_index, stmt.start)
                named == IF StartsWith(stmt.name, STR_test_)
                            \/ EndsWith(stmt.name, STR_test_suffix)
                         THEN <<line>> ELSE <<>>
            IN  test_visit_stmts(
                    [tv EXCEPT !.test_decorated_lines =
                        @ \o named \o test_decorator_lines(stmt.decorator_list, line)],
                    stmt.body)
      [] stmt.kind = "ClassDef" ->
            test_visit_stmts(
                IF StartsWith(stmt.name, STR_Test) \/ EndsWith(stmt.name, STR_Test)
                THEN [tv EXCEPT !.test_decorated_lines =
                        Append(@, line_index(tv.line_index, stmt.start))]
                ELSE tv,
                stmt.body)
      [] OTHER -> tv

(***************************************************************************)
(* analyzer.rs: apply_penalties.                                           *)
(***************************************************************************)
FRAMEWORK_CONFIDENCE == 20
PRIVATE_PENALTY == 40

\* u8::saturating_sub
\* u8 subtraction that wraps instead of saturating
wrapping_sub(a, b) == (a - b) % 256

saturating_sub(a, b) == IF a >= b THEN a - b ELSE 0

InSeq(x, seq) == \E i \in 1..Len(seq) : seq[i] = x

apply_penalties(def, fv, tv, ignored_lines) ==
    IF def.line \in ignored_lines
    THEN [def EXCEPT !.confidence = 0]
    ELSE IF tv.is_test_file \/ InSeq(def.line, tv.test_decorated_lines)
    THEN [def EXCEPT !.confidence = 0]
    ELSE LET c1 == IF def.line \in fv.framework_decorated_lines
                   THEN FRAMEWORK_CONFIDENCE ELSE def.confidence
             c2 == IF StartsWith(def.simple_name, UNDERSCORE)
                      /\ ~StartsWith(def.simple_name, DUNDER)
                   THEN saturating_sub(c1, PRIVATE_PENALTY) ELSE c1
             c3 == IF StartsWith(def.simple_name, DUNDER)
                      /\ EndsWith(def.simple_name, DUNDER)
                   THEN 0 ELSE c2
         IN  [def EXCEPT !.confidence = c3]

(***************************************************************************)
(* rustpython_ast: the node variants the visitors match on.                *)
(***************************************************************************)
Name(id) == [kind |-> "Name", id |-> id, ctx |-> "Load"]
NameStore(id) == [kind |-> "Name", id |-> id, ctx |-> "Store"]
Call(func, args) == [kind |-> "Call", func |-> func, args |-> args, keywords |-> <<>>]
Attribute(value, attr) == [kind |-> "Attribute", value |-> value, attr |-> attr]
Str(s) == [kind |-> "Constant", value |-> [type |-> "Str", s |-> s]]
IntConst == [kind |-> "Constant", value |-> [type |-> "Int"]]
Compare(left, ops, comparators) ==
    [kind |-> "Compare", left |-> left, ops |-> ops, comparators |-> comparators]
FunctionDef(name, decorator_list, body, start) ==
    [kind |-> "FunctionDef", name |-> name, decorator_list |-> decorator_list,
     body |-> body, start |-> start]
ClassDef(name, bases, body, start) ==
    [kind |-> "ClassDef", name |-> name, bases |-> bases, body |-> body, start |-> start]
Alias(name) == [name |-> name, asname |-> <<>>]
Import(names, start) == [kind |-> "Import", names |-> names, start |-> start]
ImportFrom(module, names, start) ==
    [kind |-> "ImportFrom", module |-> <<module>>, names |-> names, start |-> start]
ExprStmt(value) == [kind |-> "Expr", value |-> value]
If(test, body, orelse) == [kind |-> "If", test |-> test, body |-> body, orelse |-> orelse]
ExceptHandler(type_, body) == [type_ |-> type_, body |-> body]
Try(body, handlers, orelse, finalbody) ==
    [kind |-> "Try", body |-> body, handlers |-> handlers, orelse |-> orelse,
     finalbody |-> finalbody]
Return(value) == [kind |-> "Return", value |-> value]
Pass == [kind |-> "Pass"]

(***************************************************************************)
(* The Python files a project is drawn from.  Ln(n) is a line of n         *)
(* characters, LnC(n, c) one that carries the comment c; At(source, l, c)  *)
(* is the offset of column c of line l.                                    *)
(***************************************************************************)
Ln(n) == [len |-> n, comment |-> <<>>]
LnC(n, c) == [len |-> n, comment |-> c]
At(source, line, col) == LineIndex_new(source).line_starts[line] + col

PyFile(path, readable, syntax_ok, source, body) ==
    [path |-> path, readable |-> readable, syntax_ok |-> syntax_ok,
     source |-> source, body |-> body]

\* a.py
\*   1 def used_function():
\*   2     return 1
\*   3 def unused_function():
\*   4     return 2
\*   5 def _private():
\*   6     pass
SourceA == <<Ln(20), Ln(12), Ln(22), Ln(12), Ln(15), Ln(8)>>
FileA ==
    PyFile(<<"a","p","p","/","a",".","p","y">>, TRUE, TRUE, SourceA,
        << FunctionDef(<<"u","s","e","d","_","f","u","n","c","t","i","o","n">>, <<>>, <<Return(<<IntConst>>)>>, At(SourceA, 1, 0)),
           FunctionDef(<<"u","n","u","s","e","d","_","f","u","n","c","t","i","o","n">>, <<>>, <<Return(<<IntConst>>)>>, At(SourceA, 3, 0)),
           FunctionDef(<<"_","p","r","i","v","a","t","e">>, <<>>, <<Pass>>, At(SourceA, 5, 0)) >>)

\* b.py
\*   1 from a import used_function
\*   2 import os
\*   3 used_function()
\*   4 os.getcwd()
SourceB == <<Ln(27), Ln(9), Ln(15), Ln(11)>>
FileB ==
    PyFile(<<"a","p","p","/","b",".","p","y">>, TRUE, TRUE, SourceB,
        << ImportFrom(<<"a">>, <<Alias(<<"u","s","e","d","_","f","u","n","c","t","i","o","n">>)>>, At(SourceB, 1, 0)),
           Import(<<Alias(<<"o","s">>)>>, At(SourceB, 2, 0)),
           ExprStmt(Call(Name(<<"u","s","e","d","_","f","u","n","c","t","i","o","n">>), <<>>)),
           ExprStmt(Call(Attribute(Name(<<"o","s">>), <<"g","e","t","c","w","d">>), <<>>)) >>)

\* use.py
\*   1 import a
\*   2 a.unused_function()
SourceUse == <<Ln(8), Ln(19)>>
FileUse ==
    PyFile(<<"a","p","p","/","u","s","e",".","p","y">>, TRUE, TRUE, SourceUse,
        << Import(<<Alias(<<"a">>)>>, At(SourceUse, 1, 0)),
           ExprStmt(Call(Attribute(Name(<<"a">>), <<"u","n","u","s","e","d","_","f","u","n","c","t","i","o","n">>), <<>>)) >>)

\* shapes.py
\*   1 class Base:
\*   2     pass
\*   3 class Child(Base):
\*   4     def helper(self):
\*   5         pass
\*   6     def another_method(self):
\*   7         self.helper()
\*   8     def unused_method(self):
\*   9         pass
\*  10     def __repr__(self):
\*  11         return "Child"
\*  12 class Lonely:
\*  13     pass
SourceShapes == <<Ln(11), Ln(8), Ln(18), Ln(21), Ln(12), Ln(29), Ln(21), Ln(28),
                  Ln(12), Ln(23), Ln(22), Ln(13), Ln(8)>>
FileShapes ==
    PyFile(<<"a","p","p","/","s","h","a","p","e","s",".","p","y">>, TRUE, TRUE, SourceShapes,
        << ClassDef(<<"B","a","s","e">>, <<>>, <<Pass>>, At(SourceShapes, 1, 0)),
           ClassDef(<<"C","h","i","l","d">>, <<Name(<<"B","a","s","e">>)>>,
              << FunctionDef(<<"h","e","l","p","e","r">>, <<>>, <<Pass>>, At(SourceShapes, 4, 4)),
                 FunctionDef(<<"a","n","o","t","h","e","r","_","m","e","t","h","o","d">>, <<>>,
                    <<ExprStmt(Call(Attribute(Name(<<"s","e","l","f">>), <<"h","e","l","p","e","r">>), <<>>))>>,
                    At(SourceShapes, 6, 4)),
                 FunctionDef(<<"u","n","u","s","e","d","_","m","e","t","h","o","d">>, <<>>, <<Pass>>, At(SourceShapes, 8, 4)),
                 FunctionDef(<<"_","_","r","e","p","r","_","_">>, <<>>, <<Return(<<Str(<<"C","h","i","l","d">>)>>)>>,
                    At(SourceShapes, 10, 4)) >>,
              At(SourceShapes, 3, 0)),
           ClassDef(<<"L","o","n","e","l","y">>, <<>>, <<Pass>>, At(SourceShapes, 12, 0)) >>)

\* nested.py
\*   1 class Outer:
\*   2     class Inner:
\*   3         pass
\*   4     class InnerChild(Inner):
\*   5         pass
SourceNested == <<Ln(12), Ln(16), Ln(12), Ln(28), Ln(12)>>
FileNested ==
    PyFile(<<"a","p","p","/","n","e","s","t","e","d",".","p","y">>, TRUE, TRUE, SourceNested,
        << ClassDef(<<"O","u","t","e","r">>, <<>>,
              << ClassDef(<<"I","n","n","e","r">>, <<>>, <<Pass>>, At(SourceNested, 2, 4)),
                 ClassDef(<<"I","n","n","e","r","C","h","i","l","d">>, <<Name(<<"I","n","n","e","r">>)>>, <<Pass>>,
                    At(SourceNested, 4, 4)) >>,
              At(SourceNested, 1, 0)) >>)

\* cli.py
\*   1 import sys
\*   2 def start():
\*   3     pass
\*   4 def serve():
\*   5     pass
\*   6 def idle():
\*   7     pass
\*   8 def __getattr__(name):
\*   9     pass
\*  10 if __name__ == "__main__":
\*  11     start()
\*  12     try:
\*  13         serve()
\*  14     except Exception:
\*  15         sys.exit(1)
SourceCli == <<Ln(10), Ln(12), Ln(8), Ln(12), Ln(8), Ln(11), Ln(8), Ln(22), Ln(8),
               Ln(26), Ln(11), Ln(8), Ln(15), Ln(21), Ln(19)>>
FileCli ==
    PyFile(<<"a","p","p","/","c","l","i",".","p","y">>, TRUE, TRUE, SourceCli,
        << Import(<<Alias(<<"s","y","s">>)>>, At(SourceCli, 1, 0)),
           FunctionDef(<<"s","t","a","r","t">>, <<>>, <<Pass>>, At(SourceCli, 2, 0)),
           FunctionDef(<<"s","e","r","v","e">>, <<>>, <<Pass>>, At(SourceCli, 4, 0)),
           FunctionDef(<<"i","d","l","e">>, <<>>, <<Pass>>, At(SourceCli, 6, 0)),
           FunctionDef(<<"_","_","g","e","t","a","t","t","r","_","_">>, <<>>, <<Pass>>, At(SourceCli, 8, 0)),
           If(Compare(Name(<<"_","_","n","a","m","e","_","_">>), <<"Eq">>, <<Str(<<"_","_","m","a","i","n","_","_">>)>>),
              << ExprStmt(Call(Name(<<"s","t","a","r","t">>), <<>>)),
                 Try(<<ExprStmt(Call(Name(<<"s","e","r","v","e">>), <<>>))>>,
                     <<ExceptHandler(<<Name(<<"E","x","c","e","p","t","i","o","n">>)>>,
                         <<ExprStmt(Call(Attribute(Name(<<"s","y","s">>), <<"e","x","i","t">>), <<IntConst>>))>>)>>,
                     <<>>, <<>>) >>,
              <<>>) >>)

\* quiet.py
\*   1 def hidden():  # pragma: no skylos
\*   2     pass
\*   3 @app.route("/x")
\*   4 def index():
\*   5     pass
\*   6 class Widget(BaseModel):  # pragma: no skylos
\*   7     pass
\*   8 @task
\*   9 def _job():
\*  10     pass
SourceQuiet == <<LnC(34, <<"#"," ","p","r","a","g","m","a",":"," ","n","o"," ","s","k","y","l","o","s">>), Ln(8), Ln(16), Ln(12), Ln(8),
                 LnC(45, <<"#"," ","p","r","a","g","m","a",":"," ","n","o"," ","s","k","y","l","o","s">>), Ln(8), Ln(5), Ln(11), Ln(8)>>
FileQuiet ==
    PyFile(<<"a","p","p","/","q","u","i","e","t",".","p","y">>, TRUE, TRUE, SourceQuiet,
        << FunctionDef(<<"h","i","d","d","e","n">>, <<>>, <<Pass>>, At(SourceQuiet, 1, 0)),
           FunctionDef(<<"i","n","d","e","x">>,
              <<Call(Attribute(Name(<<"a","p","p">>), <<"r","o","u","t","e">>), <<Str(<<"/","x">>)>>)>>,
              <<Pass>>, At(SourceQuiet, 3, 0)),
           ClassDef(<<"W","i","d","g","e","t">>, <<Name(<<"B","a","s","e","M","o","d","e","l">>)>>, <<Pass>>, At(SourceQuiet, 6, 0)),
           FunctionDef(<<"_","j","o","b">>, <<Name(<<"t","a","s","k">>)>>, <<Pass>>, At(SourceQuiet, 8, 0)) >>)

\* tests/test_calc.py
\*   1 import pytest
\*   2 def check_sum():
\*   3     pass
SourceTestCalc == <<Ln(13), Ln(16), Ln(8)>>
FileTestCalc ==
    PyFile(<<"a","p","p","/","t","e","s","t","s","/","t","e","s","t","_","c","a","l","c",".","p","y">>, TRUE, TRUE, SourceTestCalc,
        << Import(<<Alias(<<"p","y","t","e","s","t">>)>>, At(SourceTestCalc, 1, 0)),
           FunctionDef(<<"c","h","e","c","k","_","s","u","m">>, <<>>, <<Pass>>, At(SourceTestCalc, 2, 0)) >>)

\* broken.py: a syntax error on line 3; body is what precedes the error
\*   1 def orphan():
\*   2     a.unused_function()
\*   3 def (:
SourceBroken == <<Ln(13), Ln(19), Ln(6)>>
FileBroken ==
    PyFile(<<"a","p","p","/","b","r","o","k","e","n",".","p","y">>, TRUE, FALSE, SourceBroken,
        << FunctionDef(<<"o","r","p","h","a","n">>, <<>>,
              <<ExprStmt(Call(Attribute(Name(<<"a">>), <<"u","n","u","s","e","d","_","f","u","n","c","t","i","o","n">>), <<>>))>>,
              At(SourceBroken, 1, 0)) >>)

\* locked.py: cannot be read (permissions, or not UTF-8)
\*   1 def sealed():
\*   2     a.unused_function()
SourceLocked == <<Ln(13), Ln(23)>>
FileLocked ==
    PyFile(<<"a","p","p","/","l","o","c","k","e","d",".","p","y">>, FALSE, TRUE, SourceLocked,
        << FunctionDef(<<"s","e","a","l","e","d">>, <<>>,
              <<ExprStmt(Call(Attribute(Name(<<"a">>), <<"u","n","u","s","e","d","_","f","u","n","c","t","i","o","n">>), <<>>))>>,
              At(SourceLocked, 1, 0)) >>)

\* notes.txt: not a Python file
FileNotes == PyFile(<<"a","p","p","/","n","o","t","e","s",".","t","x","t">>, TRUE, FALSE, <<Ln(5)>>, <<>>)

\* own.py: a function and a class used by their bare names in their own module
\*   1 def used_function():
\*   2     pass
\*   3 class UsedClass:
\*   4     pass
\*   5 def spare():
\*   6     pass
\*   7 used_function()
\*   8 UsedClass()
SourceOwn == <<Ln(20), Ln(8), Ln(16), Ln(8), Ln(12), Ln(8), Ln(15), Ln(11)>>
FileOwn ==
    PyFile(<<"a","p","p","/","o","w","n",".","p","y">>, TRUE, TRUE, SourceOwn,
        << FunctionDef(<<"u","s","e","d","_","f","u","n","c","t","i","o","n">>, <<>>, <<Pass>>, At(SourceOwn, 1, 0)),
           ClassDef(<<"U","s","e","d","C","l","a","s","s">>, <<>>, <<Pass>>, At(SourceOwn, 3, 0)),
           FunctionDef(<<"s","p","a","r","e">>, <<>>, <<Pass>>, At(SourceOwn, 5, 0)),
           ExprStmt(Call(Name(<<"u","s","e","d","_","f","u","n","c","t","i","o","n">>), <<>>)),
           ExprStmt(Call(Name(<<"U","s","e","d","C","l","a","s","s">>), <<>>)) >>)

\* deep.py: methods of a nested class, and a function declared inside a function
\*    1 class Outer:
\*    2     class Inner:
\*    3         def ping(self):
\*    4             self.pong()
\*    5         def pong(cls):
\*    6             cls.ping
\*    7     def after(self):
\*    8         self.ping()
\*    9 def tail():
\*   10     def local():
\*   11         pass
\*   12     local()
SourceDeep == <<Ln(12), Ln(16), Ln(23), Ln(23), Ln(22), Ln(20), Ln(20), Ln(19),
                Ln(11), Ln(16), Ln(12), Ln(11)>>
FileDeep ==
    PyFile(<<"a","p","p","/","d","e","e","p",".","p","y">>, TRUE, TRUE, SourceDeep,
        << ClassDef(<<"O","u","t","e","r">>, <<>>,
              << ClassDef(<<"I","n","n","e","r">>, <<>>,
                    << FunctionDef(<<"p","i","n","g">>, <<>>,
                          <<ExprStmt(Call(Attribute(Name(<<"s","e","l","f">>), <<"p","o","n","g">>), <<>>))>>,
                          At(SourceDeep, 3, 8)),
                       FunctionDef(<<"p","o","n","g">>, <<>>,
                          <<ExprStmt(Attribute(Name(<<"c","l","s">>), <<"p","i","n","g">>))>>,
                          At(SourceDeep, 5, 8)) >>,
                    At(SourceDeep, 2, 4)),
                 FunctionDef(<<"a","f","t","e","r">>, <<>>,
                    <<ExprStmt(Call(Attribute(Name(<<"s","e","l","f">>), <<"p","i","n","g">>), <<>>))>>,
                    At(SourceDeep, 7, 4)) >>,
              At(SourceDeep, 1, 0)),
           FunctionDef(<<"t","a","i","l">>, <<>>,
              << FunctionDef(<<"l","o","c","a","l">>, <<>>, <<Pass>>, At(SourceDeep, 10, 4)),
                 ExprStmt(Call(Name(<<"l","o","c","a","l">>), <<>>)) >>,
              At(SourceDeep, 9, 0)) >>)

\* pkg/__init__.py: the initializer of the package pkg
\*   1 def setup():
\*   2     pass
SourcePkgInit == <<Ln(12), Ln(8)>>
FilePkgInit ==
    PyFile(<<"a","p","p","/","p","k","g","/","_","_","i","n","i","t","_","_",".","p","y">>, TRUE, TRUE, SourcePkgInit,
        << FunctionDef(<<"s","e","t","u","p">>, <<>>, <<Pass>>, At(SourcePkgInit, 1, 0)) >>)

\* hooks.py: an export list, a module-level variable, an import that only the
\* decorator of an async function uses, and two names of the implicit-use
\* conventions
\*   1 import signals
\*   2 __all__ = ["exported_fn"]
\*   3 LIMIT = 10
\*   4 def exported_fn():
\*   5     pass
\*   6 @signals.task
\*   7 async def sync_job():
\*   8     pass
\*   9 def on_save():
\*  10     pass
\*  11 class test_suite:
\*  12     pass
SourceHooks == <<Ln(14), Ln(25), Ln(10), Ln(18), Ln(8), Ln(13), Ln(21), Ln(8),
                 Ln(14), Ln(8), Ln(17), Ln(8)>>
FileHooks ==
    LET Assign(target, value) ==
            [kind |-> "Assign", targets |-> <<target>>, value |-> value]
        List(elts) == [kind |-> "List", elts |-> elts]
        AsyncFunctionDef(name, decorator_list, body, start) ==
            [kind |-> "AsyncFunctionDef", name |-> name, decorator_list |-> decorator_list,
             body |-> body, start |-> start]
    IN  PyFile(<<"a","p","p","/","h","o","o","k","s",".","p","y">>, TRUE, TRUE, SourceHooks,
            << Import(<<Alias(<<"s","i","g","n","a","l","s">>)>>, At(SourceHooks, 1, 0)),
               Assign(NameStore(<<"_","_","a","l","l","_","_">>), List(<<Str(<<"e","x","p","o","r","t","e","d","_","f","n">>)>>)),
               Assign(NameStore(<<"L","I","M","I","T">>), IntConst),
               FunctionDef(<<"e","x","p","o","r","t","e","d","_","f","n">>, <<>>, <<Pass>>, At(SourceHooks, 4, 0)),
               AsyncFunctionDef(<<"s","y","n","c","_","j","o","b">>, <<Attribute(Name(<<"s","i","g","n","a","l","s">>), <<"t","a","s","k">>)>>,
                                <<Pass>>, At(SourceHooks, 6, 0)),
               FunctionDef(<<"o","n","_","s","a","v","e">>, <<>>, <<Pass>>, At(SourceHooks, 9, 0)),
               ClassDef(<<"t","e","s","t","_","s","u","i","t","e">>, <<>>, <<Pass>>, At(SourceHooks, 11, 0)) >>)

Catalogue == <<FileA, FileB, FileUse, FileShapes, FileNested, FileCli, FileQuiet,
               FileTestCalc, FileBroken, FileLocked, FileNotes, FileOwn, FileDeep,
               FilePkgInit, FileHooks>>

(***************************************************************************)
(* analyzer.rs: Skylos::analyze.                                           *)
(***************************************************************************)
MaxFiles == 2
Thresholds == {0, 20, 60, 100}

\* std::path::Path::file_name, extension, file_stem
file_name(path) == SplitLast(path, "/")

extension(path) ==
    LET name == file_name(path)
        dots == {i \in 1..Len(name) : name[i] = "."}
    IN  IF dots = {} \/ dots = {1} THEN <<>>
        ELSE <<SubSeq(name, MaxOf(dots) + 1, Len(name))>>

file_stem(path) ==
    LET name == file_name(path)
        dots == {i \in 1..Len(name) : name[i] = "."}
    IN  IF dots = {} \/ dots = {1} THEN name
        ELSE SubSeq(name, 1, MaxOf(dots) - 1)

\* WalkDir filtered to the entries whose extension is "py", in directory order
RECURSIVE walk_py_files(_, _)
walk_py_files(tree, from) ==
    IF from > Len(Catalogue) THEN <<>>
    ELSE (IF from \in tree /\ extension(Catalogue[from].path) = <<STR_py>>
          THEN <<from>> ELSE <<>>) \o walk_py_files(tree, from + 1)

\* WalkDir::new(path).into_iter().filter_map(|e| e.ok()): a root that does not
\* exist yields one Err entry, which the filter drops
walk_dir(exists, t) == IF exists THEN walk_py_files(t, 1) ELSE <<>>

\* fs::read_to_string(path).unwrap_or_default()
read_source(f) == IF f.readable THEN f.source ELSE <<>>

\* parse(&source, Mode::Module, ..): Some(module body) when it is Ok; the
\* empty text of an unreadable file parses to an empty module
parsed_module_salvaged(f) == IF f.readable THEN <<f.body>> ELSE <<<<>>>>
parsed_module(f) ==
    IF ~f.readable THEN <<<<>>>>
    ELSE IF f.syntax_ok THEN <<f.body>>
    ELSE <<>>

\* for call_name in &entry_point_calls: the bare and the qualified reference
entry_point_refs_bare_only(call_names, module_name) ==
    [i \in 1..Len(call_names) |-> call_names[i]]
entry_point_refs(call_names, module_name) ==
    Flatten([i \in 1..Len(call_names) |->
        <<call_names[i]>> \o
        (IF Len(module_name) # 0
         THEN <<module_name \o DOT \o call_names[i]>> ELSE <<>>)])

RECURSIVE add_refs(_, _)
add_refs(v, names) ==
    IF Len(names) = 0 THEN v ELSE add_refs(add_ref(v, Head(names)), Tail(names))

\* the closure of the parallel map: one file's (definitions, references)
process_file(f) ==
    LET path == f.path
        source == read_source(f)
        li == LineIndex_new(source)
        ignored_lines == get_ignored_lines(source)
        module_name == file_stem(path)
        visitor0 == SkylosVisitor_new(path, module_name, li)
        fv0 == FrameworkAwareVisitor_new(li)
        tv0 == TestAwareVisitor_new(path, li)
        ast == parsed_module(f)
        parsed == Len(ast) # 0
        body == IF parsed THEN ast[1] ELSE <<>>
        entry_point_calls == detect_entry_point_calls(body)
        fv == framework_visit_stmts(fv0, body)
        tv == test_visit_stmts(tv0, body)
        visitor1 == visit_stmts(visitor0, body)
        visitor == add_refs(visitor1,
                       entry_point_refs(SetToSeq(entry_point_calls), module_name))
    IN  [definitions |->
            [i \in 1..Len(visitor.definitions) |->
                apply_penalties(visitor.definitions[i], fv, tv, ignored_lines)],
         references |-> visitor.references]

\* the closure's value depends on the file alone: its value for every file
RECURSIVE file_results_from(_)
file_results_from(k) ==
    IF k > Len(Catalogue) THEN <<>>
    ELSE <<process_file(Catalogue[k])>> \o file_results_from(k + 1)

file_result == file_results_from(1)

count_references_first_file(refs) ==
    [name \in {refs[i][1] : i \in {j \in 1..Len(refs) : refs[j][2] = refs[1][2]}} |->
        Cardinality({i \in 1..Len(refs) : refs[i][1] = name /\ refs[i][2] = refs[1][2]})]

\* lines 148-151: the global reference table
count_references(refs) ==
    [name \in {refs[i][1] : i \in 1..Len(refs)} |->
        Cardinality({i \in 1..Len(refs) : refs[i][1] = name})]

\* resolve_references that also scores the definition afresh
resolve_references_rescored(def, counts) ==
    IF def.full_name \in DOMAIN counts
    THEN [def EXCEPT !.references = counts[def.full_name], !.confidence = 100]
    ELSE [def EXCEPT !.confidence = 100]

\* lines 159-161: the count of the definition's own full_name, when it has one
resolve_references(def, counts) ==
    IF def.full_name \in DOMAIN counts
    THEN [def EXCEPT !.references = counts[def.full_name]]
    ELSE def

\* lines 164-166: a definition below the threshold is dropped
passes_threshold_inverted(def, threshold) == def.confidence <= threshold
passes_threshold_strict(def, threshold) == def.confidence > threshold
passes_threshold(def, threshold) == ~(def.confidence < threshold)

VARIABLES
    root_exists,           \* whether the root path analyze is given exists
    tree,                  \* the files under the root path (indices of Catalogue)
    confidence_threshold,  \* Skylos.confidence_threshold
    pc,                    \* where analyze stands
    files,                 \* the .py entries WalkDir found
    total_files,
    results,               \* per file: <<>> while its task runs, <<result>> after
    all_defs, all_refs,
    ref_counts,
    next_def,              \* the position of  for mut def in all_defs
    unused_functions, unused_classes, unused_imports, unused_variables,
    previous,              \* the result of an earlier analyze of the same tree
    call                   \* the call of a library function on its own, <<>> if none

vars == <<root_exists, tree, confidence_threshold, pc, files, total_files, results, all_defs,
          all_refs, ref_counts, next_def, unused_functions, unused_classes,
          unused_imports, unused_variables, previous, call>>

NoCounts == [name \in {} |-> 0]

\* the files no other file of the catalogue names: each is a project of its own
OneFileProjects ==
    {k \in 1..Len(Catalogue) :
        Catalogue[k] \in {FileNested, FileCli, FileOwn, FileDeep, FilePkgInit, FileHooks}}

\* the trees analyze is given: up to MaxFiles files of the catalogue
Projects ==
    {t \in SUBSET (1..Len(Catalogue)) :
        /\ Cardinality(t) <= MaxFiles
        /\ t \cap OneFileProjects # {} => Cardinality(t) = 1}

Init ==
    /\ root_exists \in BOOLEAN
    /\ tree \in {t \in Projects : ~root_exists => t = {}}
    /\ confidence_threshold \in Thresholds
    /\ pc = "start"
    /\ files = <<>>
    /\ total_files = 0
    /\ results = <<>>
    /\ all_defs = <<>>
    /\ all_refs = <<>>
    /\ ref_counts = NoCounts
    /\ next_def = 1
    /\ unused_functions = <<>>
    /\ unused_classes = <<>>
    /\ unused_imports = <<>>
    /\ unused_variables = <<>>
    /\ previous = <<>>
    /\ call = <<>>

\* lines 55-61: collect the .py files
Discover ==
    /\ pc = "start"
    /\ files' = walk_dir(root_exists, tree)
    /\ total_files' = Len(files')
    /\ results' = [i \in 1..Len(files') |-> <<>>]
    /\ pc' = "map"
    /\ UNCHANGED <<root_exists, tree, confidence_threshold, all_defs, all_refs, ref_counts, next_def,
                   unused_functions, unused_classes, unused_imports, unused_variables,
                   previous, call>>

\* lines 63-132: one task of files.par_iter().map(..); collect keeps file order
ProcessFile(i) ==
    /\ pc = "map"
    /\ results[i] = <<>>
    /\ results' = [results EXCEPT ![i] = <<file_result[files[i]]>>]
    /\ UNCHANGED <<root_exists, tree, confidence_threshold, pc, files, total_files, all_defs,
                   all_refs, ref_counts, next_def, unused_functions, unused_classes,
                   unused_imports, unused_variables, previous, call>>

\* lines 134-146: every task is done; extend all_defs and all_refs file by file
Merge ==
    /\ pc = "map"
    /\ \A i \in 1..Len(results) : results[i] # <<>>
    /\ all_defs' = Flatten([i \in 1..Len(results) |-> results[i][1].definitions])
    /\ all_refs' = Flatten([i \in 1..Len(results) |-> results[i][1].references])
    /\ pc' = "count"
    /\ UNCHANGED <<root_exists, tree, confidence_threshold, files, total_files, results, ref_counts,
                   next_def, unused_functions, unused_classes, unused_imports,
                   unused_variables, previous, call>>

\* lines 148-156
CountReferences ==
    /\ pc = "count"
    /\ ref_counts' = count_references(all_refs)
    /\ next_def' = 1
    /\ pc' = "classify"
    /\ UNCHANGED <<root_exists, tree, confidence_threshold, files, total_files, results, all_defs,
                   all_refs, unused_functions, unused_classes, unused_imports,
                   unused_variables, previous, call>>

\* lines 158-177: one iteration of  for mut def in all_defs
Classify ==
    /\ pc = "classify"
    /\ next_def <= Len(all_defs)
    /\ LET def == resolve_references(all_defs[next_def], ref_counts)
           keep == passes_threshold(def, confidence_threshold) /\ def.references = 0
       IN  /\ unused_functions' =
                IF keep /\ def.def_type = "function"
                THEN Append(unused_functions, def) ELSE unused_functions
           /\ unused_classes' =
                IF keep /\ def.def_type = "class"
                THEN Append(unused_classes, def) ELSE unused_classes
           /\ unused_imports' =
                IF keep /\ def.def_type = "import"
                THEN Append(unused_imports, def) ELSE unused_imports
           /\ unused_variables' =
                IF keep /\ def.def_type = "variable"
                THEN Append(unused_variables, def) ELSE unused_variables
    /\ next_def' = next_def + 1
    /\ UNCHANGED <<root_exists, tree, confidence_threshold, pc, files, total_files, results,
                   all_defs, all_refs, ref_counts, previous, call>>

\* lines 179-193: Ok(AnalysisResult {..})
Finish ==
    /\ pc = "classify"
    /\ next_def > Len(all_defs)
    /\ pc' = "done"
    /\ UNCHANGED <<root_exists, tree, confidence_threshold, files, total_files, results, all_defs,
                   all_refs, ref_counts, next_def, unused_functions, unused_classes,
                   unused_imports, unused_variables, previous, call>>

\* a second analyze of the unchanged tree, with a threshold of the caller's choice
Reanalyze(threshold) ==
    /\ pc = "done"
    /\ previous = <<>>
    /\ previous' = <<[confidence_threshold |-> confidence_threshold,
                      unused_functions |-> unused_functions,
                      unused_classes |-> unused_classes,
                      unused_imports |-> unused_imports,
                      unused_variables |-> unused_variables,
                      total_files |-> total_files]>>
    /\ confidence_threshold' = threshold
    /\ pc' = "start"
    /\ files' = <<>>
    /\ total_files' = 0
    /\ results' = <<>>
    /\ all_defs' = <<>>
    /\ all_refs' = <<>>
    /\ ref_counts' = NoCounts
    /\ next_def' = 1
    /\ unused_functions' = <<>>
    /\ unused_classes' = <<>>
    /\ unused_imports' = <<>>
    /\ unused_variables' = <<>>
    /\ UNCHANGED <<root_exists, tree, call>>

Next ==
    \/ Discover
    \/ \E i \in 1..Len(results) : ProcessFile(i)
    \/ Merge
    \/ CountReferences
    \/ Classify
    \/ Finish
    \/ \E threshold \in Thresholds : Reanalyze(threshold)

Spec == Init /\ [][Next]_vars

\* analyze is one call that runs to its end: no step waits on anything
FairSpec == Spec /\ WF_vars(Next)

(***************************************************************************)
(* What the claims speak of.                                               *)
(***************************************************************************)
ToSet(seq) == {seq[i] : i \in 1..Len(seq)}

Reported ==
    ToSet(unused_functions) \cup ToSet(unused_classes)
        \cup ToSet(unused_imports) \cup ToSet(unused_variables)

ReportedCount ==
    Len(unused_functions) + Len(unused_classes) + Len(unused_imports)
        + Len(unused_variables)

\* the unused-symbol list of a kind; kind method has none
ListOfKind(kind) ==
    CASE kind = "function" -> unused_functions
      [] kind = "class" -> unused_classes
      [] kind = "import" -> unused_imports
      [] kind = "variable" -> unused_variables
      [] OTHER -> <<>>

ListedKinds == {"function", "class", "import", "variable"}

\* the number of the four lists a definition appears in
ListsHolding(def) ==
    Cardinality({kind \in ListedKinds : InSeq(def, ListOfKind(kind))})

InMatchingListOnly(def) ==
    InSeq(def, ListOfKind(def.def_type)) /\ ListsHolding(def) = 1

\* the definitions collected from the files, as analyze aggregates them
Collected == ToSet(all_defs)

ReferencedNames == {all_refs[i][1] : i \in 1..Len(all_refs)}

HasDunderName(def) ==
    /\ Len(def.simple_name) >= 2
    /\ SubSeq(def.simple_name, 1, 2) = <<"_","_">>
    /\ SubSeq(def.simple_name, Len(def.simple_name) - 1, Len(def.simple_name)) = <<"_","_">>

\* the text of the file a definition was collected from
FileAt(path) == CHOOSE f \in ToSet(Catalogue) : f.path = path

OnSuppressedLine(def) ==
    /\ def.line \in 1..Len(FileAt(def.file).source)
    /\ Contains(FileAt(def.file).source[def.line].comment, STR_pragma)

DefNamed(full_name) == {d \in Collected : d.full_name = full_name}

IsReported(full_name) == \E d \in Reported : d.full_name = full_name

(***************************************************************************)
(* C1. After analyze finishes, every collected definition, of any kind,    *)
(* whose full_name has no entry in the global reference table and whose    *)
(* confidence is at least the threshold appears in exactly one of the four *)
(* unused-symbol lists, the one matching its kind.  The code violates it:  *)
(* a definition of kind method matches no list.                            *)
(***************************************************************************)
C1_UnreferencedDefinitionsAreListed ==
    pc = "done" =>
        \A d \in Collected :
            (d.full_name \notin DOMAIN ref_counts
                /\ d.confidence >= confidence_threshold)
            => InMatchingListOnly(d)

(***************************************************************************)
(* C2. Every definition in an unused-symbol list has references = 0, no    *)
(* reference of any file bears its full_name, its confidence is at least   *)
(* the threshold, it sits in the list of its kind and in no other; and a   *)
(* listable definition without references whose confidence equals the      *)
(* threshold is kept.                                                      *)
(***************************************************************************)
C2_ListedDefinitionsAreUnreferenced ==
    /\ \A kind \in ListedKinds :
          \A d \in ToSet(ListOfKind(kind)) :
              /\ d.references = 0
              /\ d.full_name \notin ReferencedNames
              /\ d.confidence >= confidence_threshold
              /\ d.def_type = kind
              /\ ListsHolding(d) = 1
    /\ pc = "done" =>
          \A d \in Collected :
              (d.confidence = confidence_threshold
                  /\ d.references = 0
                  /\ d.full_name \notin ReferencedNames
                  /\ d.def_type \in ListedKinds)
              => d \in Reported

\* two files were merged, one of them referencing names, and a definition whose
\* confidence equals the threshold is listed
C2_Witness ==
    /\ pc = "done"
    /\ Len(files) >= 2
    /\ \E d \in Reported :
          /\ d.confidence = confidence_threshold
          /\ \E i \in 1..Len(all_refs) : all_refs[i][2] # d.file

(***************************************************************************)
(* C3. For two analyses of the same tree with thresholds t1 <= t2, what    *)
(* the second reports is a subset of what the first reported, and the      *)
(* total count does not grow.                                              *)
(***************************************************************************)
PreviouslyReported ==
    ToSet(previous[1].unused_functions) \cup ToSet(previous[1].unused_classes)
        \cup ToSet(previous[1].unused_imports) \cup ToSet(previous[1].unused_variables)

PreviousCount ==
    Len(previous[1].unused_functions) + Len(previous[1].unused_classes)
        + Len(previous[1].unused_imports) + Len(previous[1].unused_variables)

C3_RaisingThresholdReportsSubset ==
    (pc = "done" /\ previous # <<>> /\ previous[1].confidence_threshold <= confidence_threshold)
    => (Reported \subseteq PreviouslyReported /\ ReportedCount <= PreviousCount)

\* the threshold was raised and strictly fewer, but still some, symbols are reported
C3_Witness ==
    /\ pc = "done"
    /\ previous # <<>>
    /\ previous[1].confidence_threshold < confidence_threshold
    /\ 0 < ReportedCount
    /\ ReportedCount < PreviousCount

(***************************************************************************)
(* C4. A definition whose declaration line carries "pragma: no skylos" is  *)
(* in none of the four lists, whatever the threshold (0 included).  The    *)
(* code violates it at threshold 0: the confidence 0 it assigns is not     *)
(* below 0.                                                                *)
(***************************************************************************)
C4_SuppressedLineNeverListed ==
    \A d \in Reported : ~OnSuppressedLine(d)

(***************************************************************************)
(* C5. A definition whose simple name starts and ends with two underscores *)
(* is in none of the four lists, at every threshold and whether or not     *)
(* references to it exist.                                                 *)
(***************************************************************************)
C5_DunderNeverListed ==
    \A d \in Reported : ~HasDunderName(d)

\* threshold 0: an unreferenced dunder function of a listable kind was classified
C5_Witness ==
    /\ pc = "done"
    /\ confidence_threshold = 0
    /\ \E d \in Collected :
          /\ HasDunderName(d)
          /\ d.def_type = "function"
          /\ d.full_name \notin DOMAIN ref_counts
          /\ d.confidence >= confidence_threshold

(***************************************************************************)
(* C6. For the class of shapes.py, whose another_method calls              *)
(* self.helper(): helper is not reported, and the uncalled sibling         *)
(* unused_method is reported.  The code violates the second half: no       *)
(* method is ever reported.                                                *)
(***************************************************************************)
C6_SelfCallResolvesAndSiblingReported ==
    (pc = "done" /\ 4 \in tree /\ confidence_threshold <= 100) =>
        /\ DefNamed(<<"s","h","a","p","e","s",".","C","h","i","l","d",".","h","e","l","p","e","r">>) # {}
        /\ ~IsReported(<<"s","h","a","p","e","s",".","C","h","i","l","d",".","h","e","l","p","e","r">>)
        /\ IsReported(<<"s","h","a","p","e","s",".","C","h","i","l","d",".","u","n","u","s","e","d","_","m","e","t","h","o","d">>)

(***************************************************************************)
(* The syntax trees as the claims read them: every expression and every    *)
(* block below a statement, whether or not a visitor descends into it.     *)
(***************************************************************************)
ChildExprs(e) ==
    CASE e.kind = "Call" -> <<e.func>> \o e.args \o KeywordValues(e.keywords)
      [] e.kind = "Attribute" -> <<e.value>>
      [] e.kind = "Compare" -> <<e.left>> \o e.comparators
      [] e.kind = "List" -> e.elts
      [] OTHER -> <<>>

StmtExprs(s) ==
    CASE s.kind \in {"FunctionDef", "AsyncFunctionDef"} -> s.decorator_list
      [] s.kind = "ClassDef" -> s.bases
      [] s.kind = "Expr" -> <<s.value>>
      [] s.kind = "If" -> <<s.test>>
      [] s.kind = "Return" -> s.value
      [] s.kind = "Try" -> Flatten([i \in 1..Len(s.handlers) |-> s.handlers[i].type_])
      [] OTHER -> <<>>

StmtBlocks(s) ==
    CASE s.kind \in {"FunctionDef", "AsyncFunctionDef", "ClassDef"} -> s.body
      [] s.kind = "If" -> s.body \o s.orelse
      [] s.kind = "Try" ->
            s.body \o Flatten([i \in 1..Len(s.handlers) |-> s.handlers[i].body])
                \o s.orelse \o s.finalbody
      [] OTHER -> <<>>

\* the names called anywhere inside an expression: f for f(..), m for x.m(..)
RECURSIVE CalledInExpr(_)
CalledInExpr(e) ==
    (IF e.kind = "Call" THEN ToSet(get_call_name(e.func)) ELSE {})
        \cup UNION {CalledInExpr(c) : c \in ToSet(ChildExprs(e))}

RECURSIVE CalledInStmts(_)
CalledInStmts(stmts) ==
    UNION {UNION {CalledInExpr(e) : e \in ToSet(StmtExprs(s))}
               \cup CalledInStmts(StmtBlocks(s)) : s \in ToSet(stmts)}

\* the classes declared anywhere below stmts: name, plain-name bases, and
\* whether the declaration sits inside another class
RECURSIVE ClassesIn(_, _)
ClassesIn(stmts, nested) ==
    UNION {(IF s.kind = "ClassDef"
            THEN {[name |-> s.name,
                   plain_bases |-> {s.bases[i].id :
                                       i \in {j \in 1..Len(s.bases) : s.bases[j].kind = "Name"}},
                   nested |-> nested]}
            ELSE {})
           \cup ClassesIn(StmtBlocks(s), nested \/ s.kind = "ClassDef")
           : s \in ToSet(stmts)}

\* the files of the tree that analyze reads and parses
Analysed ==
    {f \in {Catalogue[k] : k \in tree} :
        extension(f.path) = <<STR_py>> /\ f.readable /\ f.syntax_ok}

\* the files of the tree that cannot be read or fail to parse
Failing ==
    {f \in {Catalogue[k] : k \in tree} :
        extension(f.path) = <<STR_py>> /\ ~(f.readable /\ f.syntax_ok)}

QualifiedIn(f, name) == file_stem(f.path) \o DOT \o name

ModuleFunctions(f) == {s.name : s \in {t \in ToSet(f.body) : t.kind = "FunctionDef"}}

Guards(f) == {s \in ToSet(f.body) : is_main_guard(s)}

CalledInsideGuard(f) == UNION {CalledInStmts(g.body) : g \in Guards(f)}

\* the calls of the tree that are not inside the main guard of f
CalledOutsideGuard(f) ==
    UNION {CalledInStmts(<<s>>) : s \in ToSet(f.body) \ Guards(f)}
        \cup UNION {CalledInStmts(g.orelse) : g \in Guards(f)}
        \cup UNION {CalledInStmts(o.body) : o \in Analysed \ {f}}

ListedFunction(full_name) == \E d \in ToSet(unused_functions) : d.full_name = full_name

(***************************************************************************)
(* C7. As stated: whenever a class Base is declared anywhere in a module   *)
(* and another class of that module names Base as a base, Base is never in *)
(* unused_classes.  It fails for a Base nested inside another class.       *)
(***************************************************************************)
C7_Original_BaseClassNeverListed ==
    \A f \in Analysed :
        \A base \in ClassesIn(f.body, FALSE), child \in ClassesIn(f.body, FALSE) :
            base.name \in child.plain_bases
            => ~\E d \in ToSet(unused_classes) :
                    d.file = f.path /\ d.simple_name = base.name

(***************************************************************************)
(* C7, amended. Whenever a class Base that is not nested inside another    *)
(* class is named as a plain-name base by a class of the same module, the  *)
(* reference module.Base is recorded and Base is never in unused_classes.  *)
(***************************************************************************)
C7_TopLevelBaseClassNeverListed ==
    \A f \in Analysed :
        \A base \in ClassesIn(f.body, FALSE), child \in ClassesIn(f.body, FALSE) :
            (~base.nested /\ base.name \in child.plain_bases)
            => /\ ~\E d \in ToSet(unused_classes) :
                      d.file = f.path /\ d.full_name = QualifiedIn(f, base.name)
               /\ pc \in {"count", "classify", "done"}
                      => QualifiedIn(f, base.name) \in ReferencedNames

\* shapes.py alone: Base, used only as Child's base, is kept while Lonely is listed
C7_Witness ==
    /\ pc = "done"
    /\ tree = {4}
    /\ DefNamed(<<"s","h","a","p","e","s",".","B","a","s","e">>) # {}
    /\ \A d \in DefNamed(<<"s","h","a","p","e","s",".","B","a","s","e">>) : d.confidence >= confidence_threshold
    /\ ~IsReported(<<"s","h","a","p","e","s",".","B","a","s","e">>)
    /\ \E d \in ToSet(unused_classes) : d.full_name = <<"s","h","a","p","e","s",".","L","o","n","e","l","y">>

C9_CrossModuleImportResolves ==
    (pc = "done" /\ tree = {1, 2} /\ confidence_threshold <= 100) =>
        /\ ListedFunction(<<"a",".","u","n","u","s","e","d","_","f","u","n","c","t","i","o","n">>)
        /\ ~IsReported(<<"a",".","u","s","e","d","_","f","u","n","c","t","i","o","n">>)

(***************************************************************************)
(* C10. A file that cannot be read or fails to parse yields no definition  *)
(* and no reference, nothing of it enters the aggregate, total_files       *)
(* counts the file, the functions of the valid files are reported as if it *)
(* were absent (every function of a valid file that no valid file          *)
(* references, that is not implicitly used and is at or above the          *)
(* threshold is in unused_functions), and the run is never aborted: with   *)
(* such a file in the tree, analyze still runs to its end.                 *)
(***************************************************************************)
ReferencedByAnalysed(full_name) ==
    \E k \in tree :
        /\ Catalogue[k] \in Analysed
        /\ \E i \in 1..Len(file_result[k].references) :
               file_result[k].references[i][1] = full_name

FailingFileContributesNothing ==
    /\ \A i \in 1..Len(results) :
          (results[i] # <<>> /\ Catalogue[files[i]] \in Failing)
          => (results[i][1].definitions = <<>> /\ results[i][1].references = <<>>)
    /\ \A d \in Collected : FileAt(d.file) \notin Failing
    /\ \A i \in 1..Len(all_refs) : FileAt(all_refs[i][2]) \notin Failing
    /\ pc # "start" => total_files = Cardinality(Analysed) + Cardinality(Failing)
    /\ pc = "done" =>
          \A f \in Analysed : \A name \in ModuleFunctions(f) :
              ( /\ ~is_implicitly_used(name)
                /\ ~ReferencedByAnalysed(QualifiedIn(f, name))
                /\ \A d \in DefNamed(QualifiedIn(f, name)) :
                       d.confidence >= confidence_threshold )
              => ListedFunction(QualifiedIn(f, name))

PyFilesOf(t) == {k \in t : extension(Catalogue[k].path) = <<STR_py>>}

ExpectedDefs == UNION {ToSet(file_result[k].definitions) : k \in PyFilesOf(tree)}

ExpectedOccurrences(name) ==
    UNION {{<<k, i>> : i \in {j \in 1..Len(file_result[k].references) :
                                  file_result[k].references[j][1] = name}}
           : k \in PyFilesOf(tree)}

ExpectedList(kind) ==
    {d \in ExpectedDefs :
        /\ d.def_type = kind
        /\ d.references = 0
        /\ ExpectedOccurrences(d.full_name) = {}
        /\ d.confidence >= confidence_threshold}

C12_MissingRootIsAnError ==
    ~root_exists => pc # "done"

\* the names called as plain names anywhere inside an expression: f for f(..)
RECURSIVE BareCalledInExpr(_)
BareCalledInExpr(e) ==
    (IF e.kind = "Call" /\ e.func.kind = "Name" THEN {e.func.id} ELSE {})
        \cup UNION {BareCalledInExpr(c) : c \in ToSet(ChildExprs(e))}

RECURSIVE BareCalledInStmts(_)
BareCalledInStmts(stmts) ==
    UNION {UNION {BareCalledInExpr(e) : e \in ToSet(StmtExprs(s))}
               \cup BareCalledInStmts(StmtBlocks(s)) : s \in ToSet(stmts)}

BareCalledInTree == UNION {BareCalledInStmts(f.body) : f \in Analysed}

SubclassedInTree ==
    UNION {UNION {c.plain_bases : c \in ClassesIn(f.body, FALSE)} : f \in Analysed}

ListedClass(full_name) == \E d \in ToSet(unused_classes) : d.full_name = full_name

(***************************************************************************)
(* C13. A module-level function called by its bare name somewhere in the   *)
(* project, its own module included, is not in unused_functions, and a     *)
(* class instantiated by its bare name or subclassed is not in             *)
(* unused_classes.  The code violates it: the bare reference never equals  *)
(* the module-qualified full_name of the definition.                       *)
(***************************************************************************)
C13_BareUseKeepsSymbol ==
    pc = "done" =>
        \A f \in Analysed :
            /\ \A name \in ModuleFunctions(f) :
                  name \in BareCalledInTree => ~ListedFunction(QualifiedIn(f, name))
            /\ \A c \in ClassesIn(f.body, FALSE) :
                  (~c.nested /\ c.name \in BareCalledInTree \cup SubclassedInTree)
                  => ~ListedClass(QualifiedIn(f, c.name))

(***************************************************************************)
(* The library functions called on their own, as the unit tests call them: *)
(* TestAwareVisitor::new on a path, LineIndex on a text, apply_penalties   *)
(* on a fresh definition.                                                  *)
(***************************************************************************)
analyze_vars ==
    <<root_exists, tree, confidence_threshold, pc, files, total_files, results,
      all_defs, all_refs, ref_counts, next_def, unused_functions, unused_classes,
      unused_imports, unused_variables, previous>>

\* utils.rs 10-18, on the characters of the text: 0, then i + 1 for every
\* newline at the 0-based position i
RECURSIVE newline_starts(_, _)
newline_starts(text, i) ==
    IF i > Len(text) THEN <<>>
    ELSE (IF text[i] = "\n" THEN <<i>> ELSE <<>>) \o newline_starts(text, i + 1)

LineIndex_from_text(text) == [line_starts |-> <<0>> \o newline_starts(text, 1)]

\* str::lines(): the lines of a text without their terminators
RECURSIVE text_lines(_, _, _)
text_lines(text, i, len) ==
    IF i > Len(text) THEN (IF len = 0 THEN <<>> ELSE <<Ln(len)>>)
    ELSE IF text[i] = "\n" THEN <<Ln(len)>> \o text_lines(text, i + 1, 0)
    ELSE text_lines(text, i + 1, len + 1)

MaxText == 4
Texts == UNION {[1..n -> {"a", "\n"}] : n \in 0..MaxText}

UnitPaths ==
    { <<"t","e","s","t","_","m","o","d","u","l","e",".","p","y">>, <<"m","o","d","u","l","e","_","t","e","s","t",".","p","y">>, <<"c","o","n","f","t","e","s","t",".","p","y">>, <<"t","e","s","t","s",".","p","y">>,
      <<"r","e","g","u","l","a","r","_","m","o","d","u","l","e",".","p","y">>, <<"t","e","s","t","s","/","h","e","l","p","e","r",".","p","y">>, <<"t","e","s","t","/","h","e","l","p","e","r",".","p","y">>,
      <<"a","p","p","/","t","e","s","t","s","/","h","e","l","p","e","r",".","p","y">>, <<"a","p","p","/","t","e","s","t","/","h","e","l","p","e","r",".","p","y">>, <<"a","p","p","\\","t","e","s","t","s","\\","h","e","l","p","e","r",".","p","y">>,
      <<"a","p","p","/","l","a","t","e","s","t","/","r","u","n",".","p","y">>, <<"a","p","p","/","c","o","n","t","e","s","t",".","p","y">>, <<"a","p","p","/","m","o","d","u","l","e","_","t","e","s","t",".","p","y","c">>,
      <<"a","p","p","/","t","e","s","t","_","m","o","d","u","l","e",".","p","y">>, <<"a","p","p","/","c","o","n","f","t","e","s","t",".","p","y">> }

UnitNames == { <<"j","o","b">>, <<"_","j","o","b">>, <<"_","_","j","o","b">>, <<"_","_","j","o","b","_","_">>, <<"_">>, <<"_","_">>, <<"_","j","o","b","_","_">> }

NewTestAwareVisitor(path) ==
    /\ call = <<>>
    /\ call' = <<[fn |-> "TestAwareVisitor::new", path |-> path,
                  is_test_file |->
                      TestAwareVisitor_new(path, LineIndex_from_text(<<>>)).is_test_file]>>
    /\ UNCHANGED analyze_vars

LookupLine(text, offset) ==
    /\ call = <<>>
    /\ call' = <<[fn |-> "LineIndex::line_index", source |-> text, offset |-> offset,
                  line |-> line_index(LineIndex_from_text(text), offset),
                  line_of_lines |-> line_index(LineIndex_new(text_lines(text, 1, 0)), offset)]>>
    /\ UNCHANGED analyze_vars

\* apply_penalties on the definition add_def has just created
ApplyPenalties(path, simple_name, line, ignored_lines, test_lines, framework_lines) ==
    LET li == LineIndex_from_text(<<>>)
        def == add_def(SkylosVisitor_new(path, file_stem(path), li),
                       file_stem(path) \o DOT \o simple_name, "function", line).definitions[1]
        tv == [TestAwareVisitor_new(path, li) EXCEPT !.test_decorated_lines = test_lines]
        fv == [FrameworkAwareVisitor_new(li) EXCEPT !.framework_decorated_lines = framework_lines]
    IN  /\ call = <<>>
        /\ call' = <<[fn |-> "apply_penalties", def |-> def,
                      is_test_file |-> tv.is_test_file,
                      suppressed |-> line \in ignored_lines,
                      test_related |-> InSeq(line, test_lines),
                      framework_decorated |-> line \in framework_lines,
                      confidence |-> apply_penalties(def, fv, tv, ignored_lines).confidence]>>
        /\ UNCHANGED analyze_vars


\* the components of a path between separators, in order
RECURSIVE PathComponents(_, _)
PathComponents(path, current) ==
    IF Len(path) = 0 THEN <<current>>
    ELSE IF Head(path) \in {"/", "\\"}
         THEN <<current>> \o PathComponents(Tail(path), <<>>)
         ELSE PathComponents(Tail(path), Append(current, Head(path)))

BaseName(path) == LET parts == PathComponents(path, <<>>) IN parts[Len(parts)]

Directories(path) ==
    LET parts == PathComponents(path, <<>>) IN {parts[i] : i \in 1..(Len(parts) - 1)}

\* a path in a directory named test or tests, or whose base name is
\* test_<name>.py, <name>_test.py, conftest.py or tests.py
NamedAsTestFile(path) ==
    \/ Directories(path) \cap {<<"t","e","s","t">>, <<"t","e","s","t","s">>} # {}
    \/ StartsWith(BaseName(path), <<"t","e","s","t","_">>) /\ EndsWith(BaseName(path), <<".","p","y">>)
    \/ EndsWith(BaseName(path), <<"_","t","e","s","t",".","p","y">>)
    \/ BaseName(path) \in {<<"c","o","n","f","t","e","s","t",".","p","y">>, <<"t","e","s","t","s",".","p","y">>}

Called(fn) == call # <<>> /\ call[1].fn = fn

(***************************************************************************)
(* C14. TestAwareVisitor::new sets is_test_file for every path in a        *)
(* directory named test or tests and for every base name test_<name>.py,   *)
(* <name>_test.py, conftest.py or tests.py, and not for regular_module.py. *)
(* The code violates it: its pattern knows the directories and the suffix  *)
(* _test.py only.                                                          *)
(***************************************************************************)
C14_TestFileNaming ==
    Called("TestAwareVisitor::new") =>
        /\ NamedAsTestFile(call[1].path) => call[1].is_test_file
        /\ call[1].path = <<"r","e","g","u","l","a","r","_","m","o","d","u","l","e",".","p","y">> => ~call[1].is_test_file

\* the newline characters of a text strictly before an offset (the character
\* text[i] occupies the 0-based offset i - 1)
NewlinesBefore(text, offset) == {i \in 1..Len(text) : text[i] = "\n" /\ i - 1 < offset}

(***************************************************************************)
(* C15. For every source text and every offset within it, line_index       *)
(* returns 1 plus the number of newline characters strictly before the     *)
(* offset: offset 0 is line 1 and the offset of a line's first character   *)
(* is that line. The index built from the lines of the text (line lengths, *)
(* as the catalogue files give them) answers the same.                     *)
(***************************************************************************)
C15_LineIndexCountsNewlines ==
    Called("LineIndex::line_index") =>
        /\ call[1].line = 1 + Cardinality(NewlinesBefore(call[1].source, call[1].offset))
        /\ call[1].offset = 0 => call[1].line = 1
        /\ call[1].line_of_lines = call[1].line

\* the offset of the first character of the third line, right after a newline
C15_Witness ==
    /\ Called("LineIndex::line_index")
    /\ call[1].offset > 0
    /\ call[1].source[call[1].offset] = "\n"
    /\ call[1].offset < Len(call[1].source)
    /\ call[1].line = 3

SingleLeadingUnderscore(name) == StartsWith(name, <<"_">>) /\ ~StartsWith(name, <<"_","_">>)

DoubleUnderscoreBothEnds(name) == StartsWith(name, <<"_","_">>) /\ EndsWith(name, <<"_","_">>)

\* the cascade of the rules, from the inputs of a call
Cascade(c) ==
    IF c.suppressed THEN 0
    ELSE IF c.is_test_file \/ c.test_related THEN 0
    ELSE LET start == 100
             decorated == IF c.framework_decorated THEN 20 ELSE start
             private == IF SingleLeadingUnderscore(c.def.simple_name)
                        THEN (IF decorated - 40 < 0 THEN 0 ELSE decorated - 40)
                        ELSE decorated
         IN  IF DoubleUnderscoreBothEnds(c.def.simple_name) THEN 0 ELSE private

(***************************************************************************)
(* C16. apply_penalties computes the confidence as an ordered cascade      *)
(* from 100: a suppressed line gives 0 and stops; otherwise a test file or *)
(* a test-related line gives 0 and stops; otherwise a framework-decorated  *)
(* line sets 20; then a single leading underscore subtracts 40 with floor  *)
(* 0; then a name starting and ending with double underscores forces 0.    *)
(* The result is within 0..100 for every combination of inputs.            *)
(***************************************************************************)
C16_PenaltyCascade ==
    Called("apply_penalties") =>
        /\ call[1].def.confidence = 100
        /\ call[1].confidence = Cascade(call[1])
        /\ call[1].confidence \in 0..100

\* a private name on a framework-decorated line: 20 - 40 stops at the floor
C16_Witness ==
    /\ Called("apply_penalties")
    /\ ~call[1].suppressed /\ ~call[1].is_test_file /\ ~call[1].test_related
    /\ call[1].framework_decorated
    /\ call[1].def.simple_name = <<"_","j","o","b">>
    /\ call[1].confidence = 0

\* the definitions the finished tasks have returned
TaskDefinitions ==
    UNION {ToSet(results[i][1].definitions) : i \in {j \in 1..Len(results) : results[j] # <<>>}}

\* the value add_def gives references when it creates the definition
CreationReferences(d) == IF is_implicitly_used(d.simple_name) THEN 1 ELSE 0

SameButReferences(d, e) == [d EXCEPT !.references = 0] = [e EXCEPT !.references = 0]

C17_FieldsByPhase ==
    /\ \A d \in TaskDefinitions :
            d.references = CreationReferences(d) /\ d.confidence \in 0..100
    /\ pc \in {"count", "classify", "done"} =>
            all_defs = Flatten([i \in 1..Len(results) |-> results[i][1].definitions])
    /\ \A d \in Reported :
            \E k \in 1..(next_def - 1) :
                /\ SameButReferences(d, all_defs[k])
                /\ d.references # all_defs[k].references =>
                       /\ d.full_name \in DOMAIN ref_counts
                       /\ d.references = ref_counts[d.full_name]

C17_FieldsByStep ==
    /\ \A i \in 1..Len(results) :
            results[i] # <<>> /\ pc' # "start" => results'[i] = results[i]
    /\ all_defs # <<>> /\ pc' # "start" => all_defs' = all_defs
    /\ pc = "map" /\ pc' = "map" =>
            UNCHANGED <<all_defs, all_refs, ref_counts, unused_functions, unused_classes,
                        unused_imports, unused_variables>>

RECURSIVE ts_stmts(_, _)
ts_stmts(stmts, parents) ==
    LET blocks(s) ==
            CASE s.kind \in {"FunctionDef", "ClassDef"} -> s.body
              [] s.kind = "If" -> s.body \o s.orelse
              [] s.kind = "Try" ->
                    s.body \o Flatten([i \in 1..Len(s.handlers) |-> s.handlers[i].body])
                        \o s.orelse \o s.finalbody
              [] OTHER -> <<>>
    IN  IF Len(stmts) = 0 THEN <<>>
        ELSE <<[stmt |-> Head(stmts), parents |-> parents]>>
                \o ts_stmts(blocks(Head(stmts)), Append(parents, Head(stmts).kind))
                \o ts_stmts(Tail(stmts), parents)

\* every expression under a statement list, in document order
ts_exprs(stmts) ==
    LET child_exprs(e) ==
            CASE e.kind = "Call" -> <<e.func>> \o e.args \o KeywordValues(e.keywords)
              [] e.kind = "Attribute" -> <<e.value>>
              [] e.kind = "Compare" -> <<e.left>> \o e.comparators
              [] OTHER -> <<>>
        stmt_exprs(s) ==
            CASE s.kind = "FunctionDef" -> s.decorator_list
              [] s.kind = "ClassDef" -> s.bases
              [] s.kind = "Expr" -> <<s.value>>
              [] s.kind = "Assign" -> s.targets \o <<s.value>>
              [] s.kind = "If" -> <<s.test>>
              [] s.kind = "Return" -> s.value
              [] s.kind = "Try" ->
                    Flatten([i \in 1..Len(s.handlers) |-> s.handlers[i].type_])
              [] OTHER -> <<>>
        RECURSIVE exprs_under(_)
        exprs_under(exprs) ==
            IF Len(exprs) = 0 THEN <<>>
            ELSE <<Head(exprs)>> \o exprs_under(child_exprs(Head(exprs)))
                    \o exprs_under(Tail(exprs))
        under(all) == Flatten([i \in 1..Len(all) |-> exprs_under(stmt_exprs(all[i].stmt))])
    IN  under(ts_stmts(stmts, <<>>))

\* node.utf8_text: the source text of an expression
RECURSIVE ts_text(_)
ts_text(e) ==
    CASE e.kind = "Name" -> e.id
      [] e.kind = "Attribute" -> ts_text(e.value) \o DOT \o e.attr
      [] e.kind = "Call" ->
            ts_text(e.func) \o <<"(">>
                \o Join([i \in 1..Len(e.args) |-> ts_text(e.args[i])], <<",", " ">>)
                \o <<")">>
      [] e.kind = "Compare" ->
            ts_text(e.left) \o <<" ", "=", "=", " ">> \o ts_text(e.comparators[1])
      [] e.kind = "Constant" /\ e.value.type = "Str" -> <<"\"">> \o e.value.s \o <<"\"">>
      [] OTHER -> <<"0">>

\* lib.rs 24-393: Err, or the definitions (name, line) and the calls of a file
ts_parse_file(root, f) ==
    LET \* Path::components
        RECURSIVE components(_, _)
        components(path, current) ==
            IF Len(path) = 0 THEN (IF Len(current) = 0 THEN <<>> ELSE <<current>>)
            ELSE IF Head(path) = "/"
                 THEN (IF Len(current) = 0 THEN <<>> ELSE <<current>>)
                        \o components(Tail(path), <<>>)
                 ELSE components(Tail(path), Append(current, Head(path)))
        \* utils.rs 13-37, module_name: the path below the root without its
        \* extension, joined by dots; a package's __init__ is the package
        module_name(whole, above) ==
            LET below == IF /\ Len(whole) >= Len(above)
                            /\ SubSeq(whole, 1, Len(above)) = above
                         THEN SubSeq(whole, Len(above) + 1, Len(whole)) ELSE whole
                parts == IF Len(below) = 0 THEN below
                         ELSE [below EXCEPT ![Len(below)] = file_stem(@)]
                is_init == Len(parts) # 0 /\ parts[Len(parts)] = <<"_","_","i","n","i","t","_","_">>
                popped == IF is_init THEN SubSeq(parts, 1, Len(parts) - 1) ELSE parts
                parent == SubSeq(whole, 1, Len(whole) - 1)
            IN  Join(IF is_init /\ Len(popped) = 0 /\ Len(parent) # 0 /\ parent # above
                     THEN <<parent[Len(parent)]>> ELSE popped, DOT)
        is_dunder(name) == StartsWith(name, DUNDER) /\ EndsWith(name, DUNDER)
        \* HashMap::new, HashMap::insert
        empty == [k \in {} |-> <<>>]
        insert(map, key, value) ==
            [k \in DOMAIN map \cup {key} |-> IF k = key THEN value ELSE map[k]]
        \* lib.rs 69-98: the name each import binds and the dotted path it stands for
        RECURSIVE alias_names(_, _, _)
        alias_names(map, prefix, names) ==
            IF Len(names) = 0 THEN map
            ELSE LET a == Head(names)
                     key == IF Len(a.asname) # 0 THEN a.asname[1]
                            ELSE IF Len(prefix) = 0 THEN SplitLast(a.name, ".")
                            ELSE a.name
                 IN  alias_names(insert(map, key, prefix \o a.name), prefix, Tail(names))
        RECURSIVE import_aliases(_, _)
        import_aliases(map, rest) ==
            IF Len(rest) = 0 THEN map
            ELSE LET s == Head(rest).stmt
                 IN  import_aliases(
                        CASE s.kind = "Import" -> alias_names(map, <<>>, s.names)
                          [] s.kind = "ImportFrom" /\ Len(s.module) # 0 ->
                                alias_names(map, s.module[1] \o DOT, s.names)
                          [] OTHER -> map,
                        Tail(rest))
        \* the q_return matches of a method: a return of the identifier self
        returns_self(inner) ==
            \E i \in 1..Len(inner) :
                /\ inner[i].stmt.kind = "Return"
                /\ Len(inner[i].stmt.value) # 0
                /\ inner[i].stmt.value[1] = Name(<<"s","e","l","f">>)
        call_nodes(exprs) == {exprs[i] : i \in {j \in 1..Len(exprs) : exprs[j].kind = "Call"}}
        \* str::trim().is_empty() of a source given by its lines
        blank == \A i \in 1..Len(f.source) : f.source[i].len = 0
        \* the passes over the tree  all  of the module  module
        passes(module, li, all) ==
            LET \* lib.rs 113-153: the functions under one class
                RECURSIVE methods(_, _, _)
                methods(st, cls_name, rest) ==
                    IF Len(rest) = 0 THEN st
                    ELSE LET m == Head(rest).stmt
                             qualified_name == module \o DOT \o cls_name \o DOT \o m.name
                         IN  methods(
                                IF m.kind # "FunctionDef" THEN st
                                ELSE [defs |-> Append(st.defs,
                                                 <<qualified_name, line_index(li, m.start)>>),
                                      calls |-> IF is_dunder(m.name)
                                                THEN st.calls \cup {qualified_name}
                                                ELSE st.calls,
                                      method_returns_self |->
                                         IF returns_self(ts_stmts(m.body, <<>>))
                                         THEN insert(st.method_returns_self,
                                                     cls_name \o DOT \o m.name, cls_name)
                                         ELSE st.method_returns_self],
                                cls_name, Tail(rest))
                \* lib.rs 100-154: every class of the file
                RECURSIVE classes(_, _)
                classes(st, rest) ==
                    IF Len(rest) = 0 THEN st
                    ELSE LET s == Head(rest).stmt
                         IN  classes(IF s.kind = "ClassDef"
                                     THEN methods(st, s.name, ts_stmts(s.body, <<>>)) ELSE st,
                                     Tail(rest))
                \* lib.rs 156-188: var = Cls(..) types var; var = obj.method of a
                \* typed obj binds var to the method and marks the method called
                RECURSIVE assignments(_, _)
                assignments(st, rest) ==
                    IF Len(rest) = 0 THEN st
                    ELSE LET s == Head(rest).stmt
                             left == s.targets[1]
                             right == s.value
                         IN  assignments(
                                IF s.kind # "Assign" \/ left.kind # "Name" THEN st
                                ELSE IF right.kind = "Call" /\ right.func.kind = "Name"
                                THEN [st EXCEPT
                                        !.object_types = insert(@, left.id, right.func.id)]
                                ELSE IF /\ right.kind = "Attribute"
                                        /\ right.value.kind = "Name"
                                        /\ right.value.id \in DOMAIN st.object_types
                                THEN LET cls == st.object_types[right.value.id]
                                     IN  [st EXCEPT
                                            !.method_vars =
                                                insert(@, left.id, <<cls, right.attr>>),
                                            !.calls =
                                                @ \cup {module \o DOT \o cls \o DOT \o right.attr}]
                                ELSE st,
                                Tail(rest))
                \* lib.rs 190-210: the functions outside every function and class
                functions ==
                    Flatten([i \in 1..Len(all) |->
                        IF /\ all[i].stmt.kind = "FunctionDef"
                           /\ ~InSeq("FunctionDef", all[i].parents)
                           /\ ~InSeq("ClassDef", all[i].parents)
                        THEN <<<<module \o DOT \o all[i].stmt.name,
                                 line_index(li, all[i].stmt.start)>>>>
                        ELSE <<>>])
                \* the passes that read the maps the first passes filled
                calls_with(aliases, of_classes, of_assignments) ==
                    LET method_returns_self == of_classes.method_returns_self
                        object_types == of_assignments.object_types
                        method_vars == of_assignments.method_vars
                        \* lib.rs 212-241: a decorator that is a plain name or obj.attr
                        decorator_calls(d) ==
                            CASE d.kind = "Name" ->
                                    {module \o DOT \o d.id}
                                        \cup (IF d.id \in DOMAIN aliases
                                              THEN {aliases[d.id]} ELSE {})
                              [] d.kind = "Attribute" /\ d.value.kind = "Name" ->
                                    IF d.value.id \in DOMAIN aliases
                                    THEN {aliases[d.value.id] \o DOT \o d.attr}
                                    ELSE {d.value.id \o DOT \o d.attr}
                              [] OTHER -> {}
                        decorators ==
                            UNION {UNION {decorator_calls(all[i].stmt.decorator_list[j]) :
                                            j \in 1..Len(all[i].stmt.decorator_list)} :
                                   i \in {k \in 1..Len(all) : all[k].stmt.kind = "FunctionDef"}}
                        \* lib.rs 243-293, process_chained_calls: the calls a call
                        \* expression marks, and the class of the object it returns
                        \* when that is known
                        RECURSIVE process_chained_calls(_)
                        process_chained_calls(node) ==
                            CASE node.kind = "Call" /\ node.func.kind = "Attribute" ->
                                    LET chained(object, method_name) ==
                                            IF Len(object.type) = 0
                                            THEN [calls |-> object.calls, type |-> <<>>]
                                            ELSE [calls |-> object.calls \cup
                                                      {module \o DOT \o object.type[1]
                                                              \o DOT \o method_name},
                                                  type |->
                                                      IF object.type[1] \o DOT \o method_name
                                                            \in DOMAIN method_returns_self
                                                      THEN <<method_returns_self[
                                                                object.type[1] \o DOT
                                                                    \o method_name]>>
                                                      ELSE <<>>]
                                    IN  chained(process_chained_calls(node.func.value),
                                                node.func.attr)
                              [] node.kind = "Call" /\ node.func.kind = "Name" ->
                                    [calls |-> {module \o DOT \o node.func.id}, type |-> <<>>]
                              [] node.kind = "Name" ->
                                    [calls |-> {},
                                     type |-> IF node.id \in DOMAIN object_types
                                              THEN <<object_types[node.id]>> ELSE <<>>]
                              [] OTHER -> [calls |-> {}, type |-> <<>>]
                        \* lib.rs 325-343 and 368-385: the name an obj.method(..) call marks
                        method_named(obj, attr) ==
                            IF obj \in DOMAIN object_types
                            THEN module \o DOT \o object_types[obj] \o DOT \o attr
                            ELSE IF obj \in DOMAIN aliases
                            THEN aliases[obj] \o DOT \o attr
                            ELSE obj \o DOT \o attr
                        method_call(c) == method_named(ts_text(c.func.value), c.func.attr)
                        \* lib.rs 295-344: what one match of the call query adds
                        call_names(c) ==
                            process_chained_calls(c).calls
                                \cup (IF c.func.kind # "Name" THEN {}
                                      ELSE IF c.func.id \in DOMAIN method_vars
                                      THEN {module \o DOT \o method_vars[c.func.id][1]
                                                   \o DOT \o method_vars[c.func.id][2]}
                                      ELSE {module \o DOT \o c.func.id}
                                              \cup (IF c.func.id \in DOMAIN aliases
                                                    THEN {aliases[c.func.id]} ELSE {}))
                                \cup (IF c.func.kind = "Attribute" THEN {method_call(c)} ELSE {})
                        \* lib.rs 346-388: the calls inside the block of an if that
                        \* tests __name__ against __main__
                        main_call_names(c) ==
                            (IF c.func.kind = "Name" THEN {module \o DOT \o c.func.id} ELSE {})
                                \cup (IF c.func.kind = "Attribute" THEN {method_call(c)} ELSE {})
                        is_main(test) ==
                            Contains(test, <<"_","_","n","a","m","e","_","_">>) /\ Contains(test, <<"_","_","m","a","i","n","_","_">>)
                        main_blocks ==
                            UNION {UNION {main_call_names(c) :
                                            c \in call_nodes(ts_exprs(all[i].stmt.body))} :
                                   i \in {j \in 1..Len(all) :
                                            /\ all[j].stmt.kind = "If"
                                            /\ is_main(ts_text(all[j].stmt.test))}}
                    IN  [ok |-> TRUE,
                         defs |-> of_classes.defs \o functions,
                         calls |-> of_classes.calls \cup of_assignments.calls \cup decorators
                                       \cup UNION {call_names(c) :
                                                     c \in call_nodes(ts_exprs(f.body))}
                                       \cup main_blocks]
            IN  calls_with(import_aliases(empty, all),
                           classes([defs |-> <<>>, calls |-> {}, method_returns_self |-> empty],
                                   all),
                           assignments([object_types |-> empty, method_vars |-> empty,
                                        calls |-> {}], all))
    IN  IF ~f.readable THEN [ok |-> FALSE]
        ELSE IF file_name(f.path) = <<"_","_","i","n","i","t","_","_",".","p","y">> /\ blank
        THEN [ok |-> TRUE, defs |-> <<>>, calls |-> {}]
        ELSE passes(module_name(components(f.path, <<>>), components(root, <<>>)),
                    LineIndex_new(f.source), ts_stmts(f.body, <<>>))

\* the files a directory given to analyze_dir is drawn from
\*
\* pkg/builder.py                        pkg/__main__.py
\*   1 class Builder:                      1 def run():
\*   2     def step(self):                 2     pass
\*   3         return self                 3 def helper__():
\*   4     def build(self):                4     pass
\*   5         pass                        5 def __getattr__(name):
\*   6     def spare(self):                6     pass
\*   7         pass                        7 if __name__ == "__main__":
\*   8 builder = Builder()                 8     run()
\*   9 builder.step().step()
\*  10 finish = builder.build            pkg/__init__.py is empty
\*  11 finish()
TsCatalogue ==
    LET Assign(target, value) ==
            [kind |-> "Assign", targets |-> <<target>>, value |-> value]
        SourceBuilder == <<Ln(14), Ln(19), Ln(19), Ln(20), Ln(12), Ln(20), Ln(12), Ln(19),
                           Ln(21), Ln(22), Ln(8)>>
        FileBuilder ==
            PyFile(<<"a","p","p","/","p","k","g","/","b","u","i","l","d","e","r",".","p","y">>, TRUE, TRUE, SourceBuilder,
                << ClassDef(<<"B","u","i","l","d","e","r">>, <<>>,
                      << FunctionDef(<<"s","t","e","p">>, <<>>, <<Return(<<Name(<<"s","e","l","f">>)>>)>>,
                                     At(SourceBuilder, 2, 4)),
                         FunctionDef(<<"b","u","i","l","d">>, <<>>, <<Pass>>, At(SourceBuilder, 4, 4)),
                         FunctionDef(<<"s","p","a","r","e">>, <<>>, <<Pass>>, At(SourceBuilder, 6, 4)) >>,
                      At(SourceBuilder, 1, 0)),
                   Assign(NameStore(<<"b","u","i","l","d","e","r">>), Call(Name(<<"B","u","i","l","d","e","r">>), <<>>)),
                   ExprStmt(Call(Attribute(Call(Attribute(Name(<<"b","u","i","l","d","e","r">>), <<"s","t","e","p">>),
                                                <<>>), <<"s","t","e","p">>), <<>>)),
                   Assign(NameStore(<<"f","i","n","i","s","h">>), Attribute(Name(<<"b","u","i","l","d","e","r">>), <<"b","u","i","l","d">>)),
                   ExprStmt(Call(Name(<<"f","i","n","i","s","h">>), <<>>)) >>)
        SourceMain == <<Ln(10), Ln(8), Ln(15), Ln(8), Ln(22), Ln(8), Ln(26), Ln(9)>>
        FileMain ==
            PyFile(<<"a","p","p","/","p","k","g","/","_","_","m","a","i","n","_","_",".","p","y">>, TRUE, TRUE, SourceMain,
                << FunctionDef(<<"r","u","n">>, <<>>, <<Pass>>, At(SourceMain, 1, 0)),
                   FunctionDef(<<"h","e","l","p","e","r","_","_">>, <<>>, <<Pass>>, At(SourceMain, 3, 0)),
                   FunctionDef(<<"_","_","g","e","t","a","t","t","r","_","_">>, <<>>, <<Pass>>, At(SourceMain, 5, 0)),
                   If(Compare(Name(<<"_","_","n","a","m","e","_","_">>), <<"Eq">>, <<Str(<<"_","_","m","a","i","n","_","_">>)>>),
                      <<ExprStmt(Call(Name(<<"r","u","n">>), <<>>))>>, <<>>) >>)
        FileInit == PyFile(<<"a","p","p","/","p","k","g","/","_","_","i","n","i","t","_","_",".","p","y">>, TRUE, TRUE, <<>>, <<>>)
    IN  <<FileA, FileB, FileUse, FileShapes, FileCli, FileLocked, FileNotes, FileDeep,
          FileBuilder, FileMain, FileInit>>

\* lib.rs 395-443: Err for a path that does not exist; else the definitions of
\* the files that parsed which the calls of no such file name
analyze_dir(exists, is_file, t) ==
    LET \* lines 402-407: the entries with the extension py, in directory order
        RECURSIVE walk(_)
        walk(from) ==
            IF from > Len(TsCatalogue) THEN <<>>
            ELSE (IF from \in t /\ extension(TsCatalogue[from].path) = <<<<"p","y">>>>
                  THEN <<from>> ELSE <<>>) \o walk(from + 1)
        \* Path::parent
        parent(path) == SubSeq(path, 1, MaxOf({i \in 1..Len(path) : path[i] = "/"}) - 1)
        \* lines 396-400: root is the parent of a file, the directory otherwise
        root(entries) ==
            IF is_file THEN parent(TsCatalogue[entries[1]].path) ELSE <<"a","p","p">>
        \* lines 410-412: the files parse_file accepted
        accepted(path, outcome) ==
            IF outcome.ok
            THEN <<[path |-> path, defs |-> outcome.defs, calls |-> outcome.calls]>>
            ELSE <<>>
        parsed(entries) ==
            Flatten([i \in 1..Len(entries) |->
                accepted(TsCatalogue[entries[i]].path,
                         ts_parse_file(root(entries), TsCatalogue[entries[i]]))])
        \* lines 426-430
        skipped(def) ==
            \/ EndsWith(def, <<".","_","_","i","n","i","t","_","_">>)
            \/ EndsWith(def, <<".","_","_","s","t","r","_","_">>)
            \/ Contains(def, <<".","_","_">>) /\ EndsWith(def, <<"_","_">>)
        dead_of(p, all_calls) ==
            Flatten([i \in 1..Len(p.defs) |->
                IF ~skipped(p.defs[i][1]) /\ p.defs[i][1] \notin all_calls
                THEN <<[file |-> p.path, name |-> p.defs[i][1], line |-> p.defs[i][2]]>>
                ELSE <<>>])
        \* lines 414-441
        dead(outcomes, all_calls) ==
            Flatten([i \in 1..Len(outcomes) |-> dead_of(outcomes[i], all_calls)])
        report(outcomes) ==
            dead(outcomes, UNION {outcomes[i].calls : i \in 1..Len(outcomes)})
    IN  IF ~exists THEN [ok |-> FALSE]
        ELSE [ok |-> TRUE,
              dead |-> report(parsed(IF is_file THEN <<CHOOSE k \in t : TRUE>> ELSE walk(1)))]

\* the paths analyze_dir is given: a missing path, a directory holding up to
\* MaxFiles files, or one Python file
AnalyzeDir(exists, is_file, t) ==
    /\ is_file => /\ Cardinality(t) = 1
                  /\ \A k \in t : extension(TsCatalogue[k].path) = <<<<"p","y">>>>
    /\ ~exists => t = {} /\ ~is_file
    /\ call = <<>>
    /\ call' = <<[fn |-> "analyze_dir", exists |-> exists, is_file |-> is_file,
                  files |-> t, result |-> analyze_dir(exists, is_file, t)]>>
    /\ UNCHANGED analyze_vars

\* visit_expr on a string literal, by a visitor that has seen nothing yet
VisitConstant(s) ==
    /\ call = <<>>
    /\ call' = <<[fn |-> "visit_expr", s |-> s,
                  references |->
                      visit_expr(SkylosVisitor_new(<<"a","p","p","/","m",".","p","y">>, <<"m">>,
                                                   LineIndex_from_text(<<>>)),
                                 Str(s)).references]>>
    /\ UNCHANGED analyze_vars

\* the modules detect_entry_point_calls is given: one top-level  if <test>:
\* <statement>,  or the statement alone
GuardModules ==
    LET name == Name(<<"_","_","n","a","m","e","_","_">>)
        main == Str(<<"_","_","m","a","i","n","_","_">>)
        tests ==
            { Compare(name, <<"Eq">>, <<main>>),
              Compare(main, <<"Eq">>, <<name>>),
              Compare(name, <<"NotEq">>, <<main>>),
              Compare(main, <<"NotEq">>, <<name>>),
              Compare(name, <<"Eq">>, <<Str(<<"m","a","i","n">>)>>),
              Compare(Name(<<"n","a","m","e">>), <<"Eq">>, <<main>>),
              Compare(name, <<"Eq", "Eq">>, <<main, main>>),
              Compare(name, <<"Is">>, <<main>>),
              name }
        call_of(f) == ExprStmt(Call(Name(f), <<>>))
        bodies ==
            { call_of(<<"r","u","n">>),
              ExprStmt(Call(Attribute(Name(<<"a","p","p">>), <<"s","t","a","r","t">>), <<>>)),
              ExprStmt(Call(Attribute(Call(Name(<<"m","a","k","e">>), <<>>), <<"g","o">>), <<>>)),
              ExprStmt(Call(Name(<<"o","u","t","e","r">>), <<Call(Name(<<"a","r","g">>), <<>>)>>)),
              [kind |-> "Assign", targets |-> <<NameStore(<<"x">>)>>,
               value |-> Call(Name(<<"b","u","i","l","d">>), <<>>)],
              If(Name(<<"f","l","a","g">>), <<call_of(<<"y","e","s">>)>>, <<call_of(<<"n","o">>)>>),
              [kind |-> "For", target |-> NameStore(<<"x">>), iter |-> Call(Name(<<"i","t","e","m","s">>), <<>>),
               body |-> <<call_of(<<"e","a","c","h">>)>>, orelse |-> <<>>],
              [kind |-> "While", test |-> Name(<<"f","l","a","g">>),
               body |-> <<call_of(<<"p","o","l","l">>)>>, orelse |-> <<>>],
              Pass }
    IN  {<<If(t, <<b>>, <<>>)>> : t \in tests, b \in bodies} \cup {<<b>> : b \in bodies}

DetectEntryPointCalls(stmts) ==
    /\ call = <<>>
    /\ call' = <<[fn |-> "detect_entry_point_calls", stmts |-> stmts,
                  result |-> detect_entry_point_calls(stmts)]>>
    /\ UNCHANGED analyze_vars

UnitInit ==
    /\ Init
    /\ root_exists
    /\ tree = {}
    /\ confidence_threshold = 60

UnitNext ==
    \/ \E path \in UnitPaths : NewTestAwareVisitor(path)
    \/ \E text \in Texts : \E offset \in 0..Len(text) : LookupLine(text, offset)
    \/ \E path \in {<<"a","p","p","/","j","o","b",".","p","y">>, <<"a","p","p","/","t","e","s","t","s","/","j","o","b",".","p","y">>}, simple_name \in UnitNames,
          line \in {1, 2}, ignored_lines \in SUBSET {1},
          test_lines \in {<<>>, <<1>>}, framework_lines \in SUBSET {1} :
          ApplyPenalties(path, simple_name, line, ignored_lines, test_lines, framework_lines)
    \/ \E exists \in BOOLEAN, is_file \in BOOLEAN :
          \E t \in {u \in SUBSET (1..Len(TsCatalogue)) : Cardinality(u) <= MaxFiles} :
              AnalyzeDir(exists, is_file, t)
    \/ \E s \in UNION {[1..n -> {"a", " ", "\t", "\n", "."}] : n \in 0..MaxText} : VisitConstant(s)
    \/ \E stmts \in GuardModules : DetectEntryPointCalls(stmts)

UnitSpec == UnitInit /\ [][UnitNext]_vars


\* the files of an analyze_dir call that parse_file accepted, with its result
TsParsed(c) ==
    LET one == CHOOSE k \in c.files : TRUE
        path == TsCatalogue[one].path
        root == IF c.is_file
                THEN SubSeq(path, 1, Len(path) - Len(file_name(path)) - 1) ELSE <<"a","p","p">>
        given == IF c.is_file THEN {one}
                 ELSE {k \in c.files : extension(TsCatalogue[k].path) = <<<<"p","y">>>>}
    IN  {r \in {ts_parse_file(root, TsCatalogue[k]) : k \in given} : r.ok}

TsDefinitions(c) == UNION {{r.defs[i][1] : i \in 1..Len(r.defs)} : r \in TsParsed(c)}

TsAllCalls(c) == UNION {r.calls : r \in TsParsed(c)}

TsDeadNames(c) == {c.result.dead[i].name : i \in 1..Len(c.result.dead)}

\* a qualified name whose last component is a dunder name
TsDunder(name) ==
    StartsWith(SplitLast(name, "."), <<"_","_">>) /\ EndsWith(SplitLast(name, "."), <<"_","_">>)

(***************************************************************************)
(* C18. analyze_dir reports a definition as dead exactly when its          *)
(* qualified name is not a dunder name and is absent from the union of the *)
(* call sets of all successfully parsed files: a function another module   *)
(* imports with  from a import f  and calls is not reported, an uncalled   *)
(* function of a is reported as a.<function>.  The code violates the       *)
(* "exactly": it also drops names that merely end in two underscores       *)
(* below a component that starts with two.                                 *)
(***************************************************************************)
C18_DeadExactlyUncalledNonDunder ==
    Called("analyze_dir") /\ call[1].result.ok =>
        LET c == call[1]
            a == CHOOSE k \in 1..Len(TsCatalogue) : TsCatalogue[k] = FileA
            b == CHOOSE k \in 1..Len(TsCatalogue) : TsCatalogue[k] = FileB
        IN  /\ TsDeadNames(c) =
                  {d \in TsDefinitions(c) : ~TsDunder(d) /\ d \notin TsAllCalls(c)}
            /\ {a, b} \subseteq c.files =>
                  /\ <<"a",".","u","s","e","d","_","f","u","n","c","t","i","o","n">> \notin TsDeadNames(c)
                  /\ <<"a",".","u","n","u","s","e","d","_","f","u","n","c","t","i","o","n">> \notin TsAllCalls(c)
                        => <<"a",".","u","n","u","s","e","d","_","f","u","n","c","t","i","o","n">> \in TsDeadNames(c)


(***************************************************************************)
(* The declarations and the self./cls. accesses of a file as the claims    *)
(* read them, each with the classes that enclose it, outermost first.      *)
(***************************************************************************)
RECURSIVE DeclaredIn(_, _, _)
DeclaredIn(stmts, classes, in_function) ==
    UNION {(IF s.kind \in {"FunctionDef", "AsyncFunctionDef", "ClassDef"}
            THEN {[name |-> s.name,
                   kind |-> IF s.kind = "ClassDef" THEN "ClassDef" ELSE "FunctionDef",
                   classes |-> classes, in_function |-> in_function, start |-> s.start]}
            ELSE {})
           \cup DeclaredIn(StmtBlocks(s),
                           IF s.kind = "ClassDef" THEN Append(classes, s.name) ELSE classes,
                           in_function \/ s.kind \in {"FunctionDef", "AsyncFunctionDef"})
           : s \in ToSet(stmts)}

\* the expressions of a statement the visitor walks: not the decorators
VisitedExprs(s) ==
    CASE s.kind \in {"FunctionDef", "AsyncFunctionDef"} -> <<>>
      [] s.kind = "Assign" -> <<s.value>>
      [] OTHER -> StmtExprs(s)

RECURSIVE SelfAccessesInExpr(_)
SelfAccessesInExpr(e) ==
    (IF e.kind = "Attribute" /\ e.value.kind = "Name" /\ e.value.id \in {<<"s","e","l","f">>, <<"c","l","s">>}
     THEN {e.attr} ELSE {})
        \cup UNION {SelfAccessesInExpr(c) : c \in ToSet(ChildExprs(e))}

RECURSIVE SelfAccesses(_, _)
SelfAccesses(stmts, classes) ==
    UNION {{[attr |-> x, classes |-> classes] :
                x \in UNION {SelfAccessesInExpr(e) : e \in ToSet(VisitedExprs(s))}}
           \cup SelfAccesses(StmtBlocks(s),
                             IF s.kind = "ClassDef" THEN Append(classes, s.name) ELSE classes)
           : s \in ToSet(stmts)}

\* join(module, classes..., name)
ScopedName(f, classes, name) == Join(<<file_stem(f.path)>> \o classes \o <<name>>, DOT)

TaskFile(i) == Catalogue[files[i]]

\* the tasks that have returned and whose file the visitor walked
Returned ==
    {i \in 1..Len(results) :
        results[i] # <<>> /\ TaskFile(i).readable /\ TaskFile(i).syntax_ok}

TaskReferenceNames(i) ==
    {results[i][1].references[k][1] : k \in 1..Len(results[i][1].references)}

\* the definition records a task made for declarations: not the imports
TaskDeclared(i) ==
    {d \in ToSet(results[i][1].definitions) : d.def_type \in {"function", "method", "class"}}

LineOf(f, start) == line_index(LineIndex_new(f.source), start)

(***************************************************************************)
(* C19. For every attribute access self.X or cls.X the visitor walks       *)
(* inside a class, the references of the file hold join(module, enclosing  *)
(* classes, X); a method X declared in the same innermost class (nested    *)
(* classes included) is recorded under exactly that full_name; and the     *)
(* class stack is restored after a class body: every declaration is        *)
(* recorded under join(module, its own enclosing classes, name), so a      *)
(* module-level declaration after a class carries the module alone.        *)
(***************************************************************************)
C19_SelfAccessResolvesToMethodName ==
    \A i \in Returned :
        LET f == TaskFile(i)
            declared == DeclaredIn(f.body, <<>>, FALSE)
        IN  /\ \A a \in SelfAccesses(f.body, <<>>) :
                  a.classes # <<>> =>
                      /\ ScopedName(f, a.classes, a.attr) \in TaskReferenceNames(i)
                      /\ \A d \in declared :
                            (d.kind = "FunctionDef" /\ d.classes = a.classes /\ d.name = a.attr) =>
                                \E r \in TaskDeclared(i) :
                                    /\ r.def_type = "method"
                                    /\ r.line = LineOf(f, d.start)
                                    /\ r.full_name = ScopedName(f, a.classes, a.attr)
            /\ {<<r.full_name, r.line>> : r \in TaskDeclared(i)}
                   = {<<ScopedName(f, d.classes, d.name), LineOf(f, d.start)>> : d \in declared}

\* deep.py is analysed: self.pong() inside Outer.Inner is the reference
\* deep.Outer.Inner.pong, the full_name of Inner's method pong; tail, declared
\* after the body of Outer, is deep.tail
C19_Witness ==
    /\ Returned # {}
    /\ \E i \in Returned :
          /\ TaskFile(i) = FileDeep
          /\ [attr |-> <<"p","o","n","g">>, classes |-> <<<<"O","u","t","e","r">>, <<"I","n","n","e","r">>>>]
                 \in SelfAccesses(FileDeep.body, <<>>)
          /\ <<"d","e","e","p",".","O","u","t","e","r",".","I","n","n","e","r",".","p","o","n","g">> \in TaskReferenceNames(i)
          /\ \E r \in TaskDeclared(i) :
                r.full_name = <<"d","e","e","p",".","O","u","t","e","r",".","I","n","n","e","r",".","p","o","n","g">> /\ r.def_type = "method"
          /\ \E r \in TaskDeclared(i) :
                r.full_name = <<"d","e","e","p",".","t","a","i","l">> /\ r.def_type = "function"

(***************************************************************************)
(* C20. The visitor emits no definition record for a function declared     *)
(* lexically inside the body of another function: after a file is visited, *)
(* every definition of kind function or method is the record of a          *)
(* declaration that is not nested in a function body.  The code records    *)
(* every def it walks, wherever it stands.                                 *)
(***************************************************************************)
C20_NestedFunctionNotRecorded ==
    \A i \in Returned :
        \A r \in TaskDeclared(i) :
            r.def_type \in {"function", "method"} =>
                \E d \in DeclaredIn(TaskFile(i).body, <<>>, FALSE) :
                    /\ d.kind = "FunctionDef"
                    /\ ~d.in_function
                    /\ r.full_name = ScopedName(TaskFile(i), d.classes, d.name)
                    /\ r.line = LineOf(TaskFile(i), d.start)

\* the directory analyze is given: every file of the catalogue lies under it
ProjectRoot == <<<<"a","p","p">>>>

\* the module segment of a file: the enclosing directory for a package
\* initializer (none when that directory is the project root), else the
\* base name without its extension
ModuleSegment(f) ==
    LET parts == PathComponents(f.path, <<>>)
        above == SubSeq(parts, 1, Len(parts) - 1)
        base == parts[Len(parts)]
    IN  IF base = <<"_","_","i","n","i","t","_","_",".","p","y">>
        THEN (IF above = ProjectRoot THEN <<>> ELSE <<above[Len(above)]>>)
        ELSE <<SubSeq(base, 1, Len(base) - 3)>>

(***************************************************************************)
(* C21. In analyze, the definitions of a package initializer __init__.py   *)
(* are qualified with the name of its enclosing directory, never with      *)
(* "__init__", and with no module segment when the initializer lies at the *)
(* project root; the definitions of every other file are qualified with    *)
(* the base name without extension.  The code takes the file stem always.  *)
(***************************************************************************)
C21_InitializerNamedByDirectory ==
    \A i \in Returned :
        \A d \in DeclaredIn(TaskFile(i).body, <<>>, FALSE) :
            \E r \in TaskDeclared(i) :
                /\ r.line = LineOf(TaskFile(i), d.start)
                /\ r.full_name = Join(ModuleSegment(TaskFile(i)) \o d.classes \o <<d.name>>, DOT)

\* the names a file lists as strings in a module-level  __all__ = [...]
ExportList(f) ==
    UNION {{s.value.elts[k].value.s :
                k \in {j \in 1..Len(s.value.elts) :
                         /\ s.value.elts[j].kind = "Constant"
                         /\ s.value.elts[j].value.type = "Str"}} :
           s \in {t \in ToSet(f.body) :
                    /\ t.kind = "Assign"
                    /\ t.targets[1] = NameStore(<<"_","_","a","l","l","_","_">>)
                    /\ t.value.kind = "List"}}

(***************************************************************************)
(* C22. A function or class whose name is listed as a string in the        *)
(* __all__ = [...] list of its module is exported and implicitly           *)
(* referenced: it is in no unused-symbol list, even when nothing else      *)
(* references it.  The code collects the list and never reads it.          *)
(***************************************************************************)
C22_ExportedNeverListed ==
    pc = "done" =>
        \A f \in Analysed :
            \A d \in DeclaredIn(f.body, <<>>, FALSE) :
                (d.classes = <<>> /\ ~d.in_function /\ d.name \in ExportList(f)) =>
                    ~IsReported(QualifiedIn(f, d.name))

\* every expression a statement holds: decorators and assignment targets too
EveryExpr(s) ==
    CASE s.kind = "Assign" -> s.targets \o <<s.value>>
      [] OTHER -> StmtExprs(s)

\* the names in load context anywhere inside an expression, a statement list
RECURSIVE LoadNamesInExpr(_)
LoadNamesInExpr(e) ==
    (IF e.kind = "Name" /\ e.ctx = "Load" THEN {e.id} ELSE {})
        \cup UNION {LoadNamesInExpr(c) : c \in ToSet(ChildExprs(e))}

RECURSIVE LoadNames(_)
LoadNames(stmts) ==
    UNION {UNION {LoadNamesInExpr(e) : e \in ToSet(EveryExpr(s))}
               \cup LoadNames(StmtBlocks(s)) : s \in ToSet(stmts)}

(***************************************************************************)
(* C23. For every statement form of a file the visitor records a           *)
(* reference under the bare name for each name in load context anywhere    *)
(* inside the statement or its nested blocks: expression statements,       *)
(* assignments, return, raise, assert, decorators and default arguments,   *)
(* and the bodies, else-clauses and handlers of if/for/while/with/try.     *)
(* The code never walks the decorators of a function.                      *)
(***************************************************************************)
C23_EveryLoadedNameIsReferenced ==
    \A i \in Returned : LoadNames(TaskFile(i).body) \subseteq TaskReferenceNames(i)

\* the accesses base.attr with a plain identifier as base, inside an expression
RECURSIVE AttributeAccessesInExpr(_)
AttributeAccessesInExpr(e) ==
    (IF e.kind = "Attribute" /\ e.value.kind = "Name"
     THEN {[base |-> e.value.id, attr |-> e.attr]} ELSE {})
        \cup UNION {AttributeAccessesInExpr(c) : c \in ToSet(ChildExprs(e))}

\* the same below a statement list, each with whether a class encloses it;
\* visited: only in the expressions the visitor walks
RECURSIVE AttributeAccesses(_, _, _)
AttributeAccesses(stmts, in_class, visited) ==
    UNION {{[base |-> a.base, attr |-> a.attr, in_class |-> in_class] :
                a \in UNION {AttributeAccessesInExpr(e) :
                               e \in ToSet(IF visited THEN VisitedExprs(s) ELSE EveryExpr(s))}}
           \cup AttributeAccesses(StmtBlocks(s), in_class \/ s.kind = "ClassDef", visited)
           : s \in ToSet(stmts)}

\* the names the import statements of a file bind
ImportedNames(f) ==
    UNION {{IF Len(s.names[k].asname) # 0 THEN s.names[k].asname[1] ELSE s.names[k].name :
                k \in 1..Len(s.names)} :
           s \in {t \in ToSet(f.body) : t.kind \in {"Import", "ImportFrom"}}}

(***************************************************************************)
(* C24. For an attribute access base.attr on a plain identifier that is    *)
(* not a self/cls access inside a class, the visitor emits the references  *)
(* base, base.attr and attr; consequently an import bound to the name foo  *)
(* is never in unused_imports when a file of the project contains          *)
(* foo.<anything>.  The consequence fails for an access the visitor does   *)
(* not walk, such as one in a decorator.                                   *)
(***************************************************************************)
C24_AttributeAccessKeepsImport ==
    /\ \A i \in Returned :
          \A a \in AttributeAccesses(TaskFile(i).body, FALSE, TRUE) :
              ~(a.base \in {<<"s","e","l","f">>, <<"c","l","s">>} /\ a.in_class) =>
                  {a.base, a.base \o DOT \o a.attr, a.attr} \subseteq TaskReferenceNames(i)
    /\ pc = "done" =>
          \A f \in Analysed :
              \A foo \in ImportedNames(f) :
                  (\E g \in Analysed :
                      \E a \in AttributeAccesses(g.body, FALSE, FALSE) : a.base = foo) =>
                      ~\E d \in ToSet(unused_imports) : d.full_name = foo

\* the whitespace characters a string literal can hold
Whitespace == {" ", "\t", "\n"}

(***************************************************************************)
(* C25. The visitor records a string literal as a reference if and only if *)
(* the string is non-empty and holds no whitespace character of any kind   *)
(* (space, tab, newline) and no dot.  The code tests for the space alone.  *)
(***************************************************************************)
C25_StringReferenceIffIdentifierLike ==
    Called("visit_expr") =>
        LET s == call[1].s
            recorded == {call[1].references[k][1] : k \in 1..Len(call[1].references)}
        IN  /\ recorded \subseteq {s}
            /\ s \in recorded <=>
                  /\ Len(s) # 0
                  /\ \A k \in 1..Len(s) : s[k] \notin Whitespace \cup {"."}

\* an if whose test is the single comparison  __name__ == "__main__",  in
\* either operand order
EqualityGuard(s) ==
    /\ s.kind = "If"
    /\ s.test.kind = "Compare"
    /\ s.test.ops = <<"Eq">>
    /\ Len(s.test.comparators) = 1
    /\ {s.test.left, s.test.comparators[1]} = {Name(<<"_","_","n","a","m","e","_","_">>), Str(<<"_","_","m","a","i","n","_","_">>)}

(***************************************************************************)
(* C26. detect_entry_point_calls treats a top-level if as the entry-point  *)
(* guard if and only if its test is a single equality comparison between   *)
(* the name __name__ and the string "__main__", in either operand order:   *)
(* what it returns is what the bodies of those statements yield, nothing   *)
(* for a comparison with another operator, and the empty set for a module  *)
(* without a guard.  The code does not look at the operator.               *)
(***************************************************************************)
C26_GuardIsEqualityComparison ==
    Called("detect_entry_point_calls") =>
        call[1].result =
            UNION {collect_function_calls_all(g.body, {}) :
                     g \in {s \in ToSet(call[1].stmts) : EqualityGuard(s)}}

RECURSIVE CallTargetsInExpr(_)
\* the target names of the call expressions inside e, through call arguments,
\* the called expression of a chained call, attribute bases and operands
CallTargetsInExpr(e) ==
    CASE e.kind = "Call" ->
             (IF e.func.kind = "Name" THEN {e.func.id}
              ELSE IF e.func.kind = "Attribute" THEN {e.func.attr} ELSE {})
                 \cup CallTargetsInExpr(e.func)
                 \cup UNION {CallTargetsInExpr(e.args[i]) : i \in DOMAIN e.args}
      [] e.kind = "Attribute" -> CallTargetsInExpr(e.value)
      [] e.kind = "BinOp" -> CallTargetsInExpr(e.left) \cup CallTargetsInExpr(e.right)
      [] OTHER -> {}

RECURSIVE CallTargets(_)
\* the target names of the calls in a block, through nested if, for and
\* while statements and assignment right-hand sides
CallTargets(stmts) ==
    UNION {LET s == stmts[i]
           IN CASE s.kind = "Expr" -> CallTargetsInExpr(s.value)
                [] s.kind = "Assign" -> CallTargetsInExpr(s.value)
                [] s.kind = "If" -> CallTargets(s.body) \cup CallTargets(s.orelse)
                [] s.kind = "For" -> CallTargetsInExpr(s.iter) \cup CallTargets(s.body)
                [] s.kind = "While" -> CallTargets(s.body)
                [] OTHER -> {}
           : i \in DOMAIN stmts}

(***************************************************************************)
(* C27. Every call inside the body of an entry-point guard, reached through *)
(* nested if/for/while statements, assignment right-hand sides, call       *)
(* arguments and chained calls such as a().b(), has its target name in the *)
(* set detect_entry_point_calls returns: the called name of a bare call,   *)
(* the trailing attribute name of a method call.                           *)
(***************************************************************************)
C27_EveryCallInGuardBodyCollected ==
    Called("detect_entry_point_calls") =>
        \A i \in DOMAIN call[1].stmts :
            EqualityGuard(call[1].stmts[i]) =>
                CallTargets(call[1].stmts[i].body) \subseteq call[1].result

RECURSIVE MarkedFunctions(_, _)
\* the function definitions, synchronous or asynchronous, at module level or
\* inside classes, that carry a decorator whose innermost name holds a marker
MarkedFunctions(stmts, classes) ==
    UNION {(IF /\ s.kind \in {"FunctionDef", "AsyncFunctionDef"}
               /\ \E j \in DOMAIN s.decorator_list :
                      is_framework_decorator(get_decorator_name(s.decorator_list[j]))
            THEN {[name |-> s.name, classes |-> classes, start |-> s.start]}
            ELSE {})
           \cup (IF s.kind = "ClassDef"
                 THEN MarkedFunctions(s.body, Append(classes, s.name)) ELSE {})
           : s \in ToSet(stmts)}

(***************************************************************************)
(* C28. Every function definition, synchronous or asynchronous, at module  *)
(* level or inside a class, that carries a decorator whose innermost name  *)
(* contains one of the markers route, get, post, put, delete, validator,   *)
(* task has a confidence of at most 20, and is not reported at a threshold *)
(* above 20.  The framework visitor has no arm for an async def.           *)
(***************************************************************************)
C28_FrameworkDecoratedCappedAtTwenty ==
    \A i \in Returned :
        \A m \in MarkedFunctions(TaskFile(i).body, <<>>) :
            \A r \in TaskDeclared(i) :
                (/\ r.full_name = ScopedName(TaskFile(i), m.classes, m.name)
                 /\ r.line = LineOf(TaskFile(i), m.start)) =>
                    /\ r.confidence <= FRAMEWORK_CONFIDENCE
                    /\ (pc = "done" /\ confidence_threshold > FRAMEWORK_CONFIDENCE) =>
                           ~IsReported(r.full_name)

\* the names a file declares by a module-level assignment, other than the
\* export list
ModuleVariables(f) ==
    {s.targets[1].id :
        s \in {t \in ToSet(f.body) :
                 /\ t.kind = "Assign"
                 /\ t.targets[1].kind = "Name"
                 /\ t.targets[1] # NameStore(<<"_","_","a","l","l","_","_">>)}}

(***************************************************************************)
(* C29. For each module-level variable a file declares by an assignment    *)
(* the visitor emits a definition of kind variable, and a module-level     *)
(* variable that no code references is reported in unused_variables.  The  *)
(* visitor's Assign arm makes no definition.                               *)
(***************************************************************************)
C29_ModuleVariableDefined ==
    \A i \in Returned :
        \A x \in ModuleVariables(TaskFile(i)) :
            /\ \E r \in ToSet(results[i][1].definitions) :
                   /\ r.def_type = "variable"
                   /\ r.full_name = QualifiedIn(TaskFile(i), x)
            /\ (/\ pc = "done"
                /\ x \notin ReferencedNames
                /\ QualifiedIn(TaskFile(i), x) \notin ReferencedNames) =>
                   \E d \in ToSet(unused_variables) :
                       d.full_name = QualifiedIn(TaskFile(i), x)

\* a simple name of the implicit-use conventions
ConventionName(simple_name) ==
    \/ \E prefix \in {<<"t","e","s","t","_">>, <<"v","i","s","i","t","_">>, <<"l","e","a","v","e","_">>, <<"o","n","_">>} :
           StartsWith(simple_name, prefix)
    \/ simple_name \in {<<"m","a","i","n">>, <<"r","u","n">>, <<"e","x","e","c","u","t","e">>}

(***************************************************************************)
(* C30. A definition of any kind whose simple name starts with test_,      *)
(* visit_, leave_ or on_, or is main, run or execute, is created with      *)
(* references = 1 and is_exported = TRUE; the aggregation never lowers the *)
(* reference count of a definition below the value it was created with;    *)
(* such a definition is in no unused-symbol list at any threshold; and     *)
(* is_exported is TRUE exactly for the definitions created with a nonzero  *)
(* reference count.                                                        *)
(***************************************************************************)
C30_ConventionNamesNeverListed ==
    /\ \A i \in 1..Len(results) :
           results[i] # <<>> =>
               \A r \in ToSet(results[i][1].definitions) :
                   /\ ConventionName(r.simple_name) => r.references = 1 /\ r.is_exported
                   /\ r.is_exported <=> r.references # 0
    /\ (pc = "classify" /\ next_def <= Len(all_defs)) =>
           resolve_references(all_defs[next_def], ref_counts).references
               >= all_defs[next_def].references
    /\ \A d \in Reported : ~ConventionName(d.simple_name)

\* the analysis has finished with a function or class of a convention name
\* that no reference names and whose confidence passes the threshold
C30_Witness ==
    /\ pc = "done"
    /\ \E d \in Collected :
           /\ ConventionName(d.simple_name)
           /\ d.def_type \in {"function", "class"}
           /\ d.full_name \notin DOMAIN ref_counts
           /\ d.confidence >= confidence_threshold
           /\ confidence_threshold > 0
====
